---- MODULE Spec2Model ----
(***************************************************************************)
(* The WiFi setup daemon of hyper-recovery: the orchestrator run_daemon,   *)
(* the AP lifecycle (start_ap / stop_ap), the Station Connector            *)
(* (connect_to_network), the command queue and the HTTP / IPC handlers     *)
(* that feed it.                                                           *)
(***************************************************************************)
EXTENDS Integers, Sequences, FiniteSets, TLC

(***************************************************************************)
(* Bounds of the model.                                                    *)
(***************************************************************************)
\* requests the HTTP / IPC clients issue in the mixed workload
MaxCmds == 2
\* the flood workload issues capacity + FloodExtra scan requests
FloodExtra == 2
\* connectivity polls that fit into the grace period
MaxGracePolls == 2

(***************************************************************************)
(* Program constants.                                                      *)
(***************************************************************************)
\* mpsc::channel::<ControlCommand>(32)
CommandQueueCapacity == 32
\* NM_CONNECTIVITY_FULL
NM_CONNECTIVITY_FULL == 4
\* let max_attempts = 3
max_attempts == 3
\* NM_DEVICE_STATE_ACTIVATED, NM_DEVICE_STATE_FAILED
NM_DEVICE_STATE_ACTIVATED == 100
NM_DEVICE_STATE_FAILED == 120

None == "None"

SSIDs == {"HomeWiFi", "Guest"}
Backends == {"iwd", "wpa_supplicant"}

\* What a read of the Connectivity property can give: a value (NMConnectivityState,
\* 0 UNKNOWN .. 4 FULL), or a bus error.
ConnectivityReads ==
    {[ok |-> TRUE, value |-> v] : v \in 0..NM_CONNECTIVITY_FULL}
        \cup {[ok |-> FALSE, value |-> 0]}

(***************************************************************************)
(* State.                                                                  *)
(***************************************************************************)
VARIABLES
    pc,          \* position of run_daemon (main task, then the control loop task)
    exit,        \* result of run_daemon: "running", "ok", "err"
    wifi_state,  \* AppState.wifi_state (behind the RwLock)
    state_tx,    \* latest value on the watch channel
    queue,       \* the mpsc command queue
    waiting,     \* senders suspended in command_tx.send() on a full queue
    rx_open,     \* command_rx is alive (the control loop task has not ended)
    local,       \* run_daemon's local variables
    sup,         \* Process Supervisor: child handles, helper processes, runtime files
    host,        \* the host: NetworkManager backend, service units, device flags
    disk,        \* the credentials file
    tasks,       \* the spawned IPC / web tasks and the bound endpoints
    workload,    \* what the clients will ask for in this run
    hist         \* history of the run (observations only; never read by the program)

vars == <<pc, exit, wifi_state, state_tx, queue, waiting, rx_open, local, sup, host,
          disk, tasks, workload, hist>>

\* WifiState::default()
DefaultWifiState ==
    [status |-> "Initializing", available_networks |-> <<>>, connected_ssid |-> None,
     connecting_to |-> None, ap_running |-> FALSE, ap_ssid |-> None,
     portal_url |-> None, last_error |-> None, last_scan |-> None]

\* NetworkInfo, as far as the orchestrator reads it
Net(s, sig) == [ssid |-> s, signal_strength |-> sig]

\* Results scan_networks can return: sorted by signal, one entry per SSID.
ScanResults ==
    { <<Net("Guest", 90)>>, <<Net("HomeWiFi", 78), Net("Guest", 55)>> }

\* SavedCredential
Cred(p, n) == [password |-> p, last_used |-> "earlier", success_count |-> n]

\* CredentialsStore::default()
EmptyStore == [s \in {} |-> Cred("", 0)]

\* Contents the credentials file can have when the daemon starts.
CredFiles == { EmptyStore, [s \in {"HomeWiFi"} |-> Cred("hunter22", 3)] }

\* The workloads: any requests, a few of them; or scan requests only, enough
\* of them to fill the command queue.
MixedWorkload ==
    [kinds |-> {"Scan", "Connect", "Shutdown", "SwitchBackend", "GetStatus"},
     max |-> MaxCmds]
FloodWorkload ==
    [kinds |-> {"Scan"}, max |-> CommandQueueCapacity + FloodExtra]

\* ControlCommand, with the position it got in the queue
Cmd(kind, ssid, password, save, backend) ==
    [kind |-> kind, ssid |-> ssid, password |-> password, save |-> save,
     backend |-> backend, seq |-> 0]

NoCmd == Cmd("None", None, None, FALSE, None)

InitLocal ==
    [networks |-> <<>>, creds_store |-> EmptyStore, polls |-> 0,
     caller |-> None, cmd |-> NoCmd, attempt |-> 0, conn_error |-> None,
     ap_caller |-> None, child |-> 0, dev_state |-> 0, deadline |-> FALSE]

InitHist ==
    [initial_full |-> FALSE, grace |-> "none", scans |-> 0, auto |-> "none",
     start_ap_called |-> FALSE, ap_failed |-> FALSE, conf_written |-> FALSE,
     station |-> {},
     served |-> 0, enqueued |-> 0, handled |-> 0, last_seq |-> 0]

InitSup ==
    [hostapd_handle |-> 0, dnsmasq_handle |-> 0, hostapd |-> {}, dnsmasq |-> {},
     files |-> {}, spawned |-> 0]

\* the configured backend's service unit runs, NetworkManager manages the device
InitHost(b) ==
    [backend |-> b, active |-> {b}, managed |-> TRUE, autoconnect |-> TRUE,
     addr |-> FALSE]

Init ==
    /\ pc = "resolve"
    /\ exit = "running"
    /\ wifi_state = DefaultWifiState
    /\ state_tx = DefaultWifiState
    /\ queue = <<>>
    /\ waiting = <<>>
    /\ rx_open = TRUE
    /\ local = InitLocal
    /\ sup = InitSup
    /\ tasks = [ipc |-> "none", web |-> "none", socket |-> FALSE]
    /\ \/ /\ workload = MixedWorkload
          /\ \E b \in Backends : host = InitHost(b)
          /\ disk \in CredFiles
       \/ /\ workload = FloodWorkload
          /\ host = InitHost("iwd")
          /\ disk = EmptyStore
    /\ hist = InitHist

(***************************************************************************)
(* run_daemon: startup.                                                    *)
(***************************************************************************)
\* return from run_daemon
Return(result) == pc' = "done" /\ exit' = result

\* variant of a write under the guard that leaves out the send
PublishWithoutSend(s) == wifi_state' = s /\ state_tx' = state_tx

\* a write under the guard followed by state_tx.send(state.clone())
Publish(s) == wifi_state' = s /\ state_tx' = s

\* resolve_wireless_interface(..)?  and  resolve_ap_ip(..)?
Resolve ==
    /\ pc = "resolve"
    /\ \/ pc' = "check_connectivity" /\ exit' = exit
       \/ Return("err")
    /\ UNCHANGED <<wifi_state, state_tx, queue, waiting, rx_open, local, sup, host,
                   disk, tasks, workload, hist>>

\* variant of check_connectivity that takes LIMITED (3) for online
check_connectivity_limited(connectivity) == connectivity = NM_CONNECTIVITY_FULL - 1

\* check_connectivity: Ok(connectivity == 4)
check_connectivity(connectivity) == connectivity = NM_CONNECTIVITY_FULL

\* let has_connectivity = check_connectivity().await?; if has_connectivity { return Ok(()) }
CheckConnectivity ==
    /\ pc = "check_connectivity"
    /\ \E c \in ConnectivityReads :
         /\ hist' = [hist EXCEPT !.initial_full = (c.ok /\ c.value = NM_CONNECTIVITY_FULL)]
         /\ IF ~c.ok THEN Return("err")
            ELSE IF check_connectivity(c.value) THEN Return("ok")
            ELSE pc' = "grace" /\ exit' = exit
    /\ UNCHANGED <<wifi_state, state_tx, queue, waiting, rx_open, local, sup, host,
                   disk, tasks, workload>>

\* if grace_result.is_ok() { return Ok(()) }, where grace_result is what
\* timeout(grace_period, wait_for_connectivity()) gave: the wait's own result
\* wrapped in Ok, or Err(Elapsed)
grace_exits(grace_result) == grace_result \in {"Ok(Ok)", "Ok(Err)"}

GraceDone(grace_result, observed) ==
    /\ hist' = [hist EXCEPT !.grace = observed]
    /\ local' = [local EXCEPT !.polls = 0]
    /\ IF grace_exits(grace_result) THEN Return("ok")
       ELSE pc' = "set_scanning" /\ exit' = exit

\* one round of wait_for_connectivity's loop inside the timeout
GracePoll ==
    /\ pc = "grace"
    /\ local.polls < MaxGracePolls
    /\ \E c \in ConnectivityReads :
         IF ~c.ok THEN GraceDone("Ok(Err)", "poll_err")
         ELSE IF c.value = NM_CONNECTIVITY_FULL THEN GraceDone("Ok(Ok)", "full")
         ELSE /\ local' = [local EXCEPT !.polls = @ + 1]
              /\ UNCHANGED <<pc, exit, hist>>
    /\ UNCHANGED <<wifi_state, state_tx, queue, waiting, rx_open, sup, host,
                   disk, tasks, workload>>

\* the timeout fires: grace_result = Err(Elapsed)
GraceElapsed ==
    /\ pc = "grace"
    /\ GraceDone("Err(Elapsed)", "elapsed")
    /\ UNCHANGED <<wifi_state, state_tx, queue, waiting, rx_open, sup, host,
                   disk, tasks, workload>>

\* state.status = ConnectionStatus::Scanning
SetScanning ==
    /\ pc = "set_scanning"
    /\ Publish([wifi_state EXCEPT !.status = "Scanning"])
    /\ pc' = "scan"
    /\ UNCHANGED <<exit, queue, waiting, rx_open, local, sup, host, disk, tasks,
                   workload, hist>>

\* let networks = scan_networks(..).await?
ScanNetworks ==
    /\ pc = "scan"
    /\ hist' = [hist EXCEPT !.scans = @ + 1]
    /\ \/ Return("err") /\ local' = local
       \/ \E nets \in ScanResults :
            /\ local' = [local EXCEPT !.networks = nets]
            /\ pc' = "load_credentials"
            /\ exit' = exit
    /\ UNCHANGED <<wifi_state, state_tx, queue, waiting, rx_open, sup, host, disk,
                   tasks, workload>>

Some(x) == <<x>>
Nothing == <<>>

\* variant of find_known_networks with the filter inverted
find_unknown_networks(store, available) ==
    SelectSeq(available, LAMBDA n : n.ssid \notin DOMAIN store)

\* CredentialsStore::find_known_networks
find_known_networks(store, available) ==
    SelectSeq(available, LAMBDA n : n.ssid \in DOMAIN store)

\* variant of the comparator that prefers the smaller success count
SortsBeforeFewerSuccesses(store, a, b) ==
    \/ a.signal_strength > b.signal_strength
    \/ /\ a.signal_strength = b.signal_strength
       /\ store[a.ssid].success_count < store[b.ssid].success_count

\* the comparator of best_known_network's sort: a sorts before b
SortsBefore(store, a, b) ==
    \/ a.signal_strength > b.signal_strength
    \/ /\ a.signal_strength = b.signal_strength
       /\ store[a.ssid].success_count > store[b.ssid].success_count

\* CredentialsStore::best_known_network: the first element of the stable sort
best_known_network(store, available) ==
    LET known == find_known_networks(store, available)
        first == CHOOSE i \in 1..Len(known) :
                    \A j \in 1..Len(known) :
                       j # i => \/ SortsBefore(store, known[i], known[j])
                                \/ /\ ~SortsBefore(store, known[j], known[i])
                                   /\ i < j
    IN IF known = <<>> THEN Nothing ELSE Some(known[first])

\* CredentialsStore::get_password
get_password(store, ssid) ==
    IF ssid \in DOMAIN store THEN Some(store[ssid].password) ELSE Nothing

\* CredentialsStore::load().unwrap_or_default(), then the auto-connect decision
LoadCredentials ==
    /\ pc = "load_credentials"
    /\ \E creds_store \in {disk, EmptyStore} :
         LET known == best_known_network(creds_store, local.networks)
             password == IF known = Nothing THEN Nothing
                         ELSE get_password(creds_store, known[1].ssid)
         IN IF known # Nothing /\ password # Nothing
            THEN /\ local' = [local EXCEPT !.creds_store = creds_store,
                                           !.caller = "auto",
                                           !.cmd = Cmd("Connect", known[1].ssid,
                                                       password[1], FALSE, None)]
                 /\ hist' = [hist EXCEPT !.auto = "attempted"]
                 /\ pc' = "connect"
            ELSE /\ local' = [local EXCEPT !.creds_store = creds_store]
                 /\ hist' = hist
                 /\ pc' = "set_awaiting"
    /\ UNCHANGED <<exit, wifi_state, state_tx, queue, waiting, rx_open, sup, host,
                   disk, tasks, workload>>

(***************************************************************************)
(* Station Connector: connect_to_network.                                  *)
(***************************************************************************)
ConnectorPcs == {"connect", "conn_attempt", "conn_wait", "conn_decide"}

\* What the activation call of one attempt of the loop
\* `for attempt in 1..=max_attempts` can meet.
AttemptOutcomes == {"accepted", "rejected", "bus_error"}

\* Values the device's State property can be read as: 50 is
\* NM_DEVICE_STATE_CONFIG, a state on the way to ACTIVATED.
DeviceStates == {50, NM_DEVICE_STATE_ACTIVATED, NM_DEVICE_STATE_FAILED}

\* connect_to_network returns to run_daemon: to the auto-connect match
\* (lines 120-138) or to the Connect handler's match (lines 217-267)
ConnReturn(result, error, h) ==
    IF local.caller = "auto"
    THEN /\ hist' = [h EXCEPT !.auto = result]
         /\ local' = [local EXCEPT !.caller = None, !.cmd = NoCmd, !.attempt = 0,
                                   !.conn_error = error,
                                   !.dev_state = 0, !.deadline = FALSE]
         /\ IF result = "ok" THEN Return("ok")
            ELSE pc' = "set_awaiting" /\ exit' = exit
    ELSE /\ hist' = h
         /\ exit' = exit
         /\ IF result = "ok"
            THEN /\ pc' = "cmd_connected"
                 /\ local' = [local EXCEPT !.attempt = 0,
                                           !.dev_state = 0, !.deadline = FALSE]
            ELSE /\ pc' = "start_ap"
                 /\ local' = [local EXCEPT !.attempt = 0, !.conn_error = error,
                                           !.ap_caller = "restart",
                                           !.dev_state = 0, !.deadline = FALSE]

\* lines 466-493: start the backend's service unit, reclaim the device, flush
\* the interface; a bus error before the attempts returns Err
ConnPreamble ==
    /\ pc = "connect"
    /\ \E service \in {host.backend, "iwd"} :   \* current_wifi_backend().unwrap_or(Iwd)
         LET h == [hist EXCEPT !.station = @ \cup {service}]
         IN \/ /\ host' = [host EXCEPT !.active = @ \cup {service}]
               /\ ConnReturn("err", "bus error", h)
            \/ /\ host' = [host EXCEPT !.active = @ \cup {service}, !.managed = TRUE,
                                       !.autoconnect = TRUE, !.addr = FALSE]
               /\ hist' = h
               /\ local' = [local EXCEPT !.attempt = 1]
               /\ pc' = "conn_attempt"
               /\ exit' = exit
    /\ UNCHANGED <<wifi_state, state_tx, queue, waiting, rx_open, sup, disk,
                   tasks, workload>>

\* one round of the attempt loop up to the activation call, lines 498-517 and
\* 528-544, and the bail after the loop
ConnAttempt ==
    /\ pc = "conn_attempt"
    /\ \E outcome \in AttemptOutcomes :
         CASE outcome = "accepted" ->
                /\ pc' = "conn_wait"
                /\ UNCHANGED <<exit, local, hist>>
           [] outcome = "bus_error" -> ConnReturn("err", "bus error", hist)
           [] outcome = "rejected" ->
                IF local.attempt < max_attempts
                THEN /\ local' = [local EXCEPT !.attempt = @ + 1]
                     /\ UNCHANGED <<pc, exit, hist>>
                ELSE ConnReturn("err", "Connection failed after 3 attempts", hist)
    /\ UNCHANGED <<wifi_state, state_tx, queue, waiting, rx_open, sup, host, disk,
                   tasks, workload>>

\* variant of the poll's decision that takes every state but FAILED for success
wait_for_device_activation_lenient(state, timed_out) ==
    IF state = NM_DEVICE_STATE_FAILED THEN "failed" ELSE "ok"

\* variant of the poll's decision that never looks at the deadline
wait_for_device_activation_no_deadline(state, timed_out) ==
    IF state = NM_DEVICE_STATE_ACTIVATED THEN "ok"
    ELSE IF state = NM_DEVICE_STATE_FAILED THEN "failed"
    ELSE "sleep"

\* wait_for_device_activation, one round of its loop with the State just read:
\* Ok on ACTIVATED, bail on FAILED, bail when the deadline has passed, else
\* sleep and poll again
wait_for_device_activation(state, timed_out) ==
    IF state = NM_DEVICE_STATE_ACTIVATED THEN "ok"
    ELSE IF state = NM_DEVICE_STATE_FAILED THEN "failed"
    ELSE IF timed_out THEN "timeout"
    ELSE "sleep"

\* the poll reads the State property; the 35 s deadline has passed or not
ConnWaitRead ==
    /\ pc = "conn_wait"
    /\ \/ ConnReturn("err", "bus error", hist)
       \/ \E state \in DeviceStates, timed_out \in BOOLEAN :
            /\ local' = [local EXCEPT !.dev_state = state, !.deadline = timed_out]
            /\ pc' = "conn_decide"
            /\ UNCHANGED <<exit, hist>>
    /\ UNCHANGED <<wifi_state, state_tx, queue, waiting, rx_open, sup, host, disk,
                   tasks, workload>>

\* lines 519-527 with 611-634: what the poll makes of the State it read; the
\* `?` at line 525 returns the wait's error from connect_to_network
ConnWaitDecide ==
    /\ pc = "conn_decide"
    /\ LET decision == wait_for_device_activation(local.dev_state, local.deadline)
       IN CASE decision = "ok" -> ConnReturn("ok", None, hist)
            [] decision = "failed" ->
                 ConnReturn("err", "Device activation failed", hist)
            [] decision = "timeout" ->
                 ConnReturn("err", "Connection timed out waiting for device activation",
                            hist)
            [] decision = "sleep" ->
                 /\ pc' = "conn_wait"
                 /\ local' = [local EXCEPT !.dev_state = 0, !.deadline = FALSE]
                 /\ UNCHANGED <<exit, hist>>
    /\ UNCHANGED <<wifi_state, state_tx, queue, waiting, rx_open, sup, host, disk,
                   tasks, workload>>

(***************************************************************************)
(* Process Supervisor and AP lifecycle: start_ap, stop_ap.                 *)
(***************************************************************************)
HOSTAPD_CONF_PATH == "hyper-hostapd.conf"
DNSMASQ_CONF_PATH == "hyper-dnsmasq.conf"

\* variant of stop_ap that kills the stored children without taking the handles
stop_ap_keeps_handles(s) ==
    [s EXCEPT !.dnsmasq = {}, !.hostapd = {}, !.files = {}]

\* variant of stop_ap that takes the handles and drops the children unkilled
stop_ap_drops_children(s) ==
    [s EXCEPT !.dnsmasq_handle = 0, !.hostapd_handle = 0, !.files = {}]

\* stop_ap: kill the stored children, pattern-kill by config path, remove the
\* runtime files; every step is best-effort and the result is Ok
stop_ap(s) ==
    LET s1 == [s EXCEPT !.dnsmasq = @ \ {s.dnsmasq_handle}, !.dnsmasq_handle = 0]
        s2 == [s1 EXCEPT !.dnsmasq = {}]       \* pkill -f DNSMASQ_CONF_PATH
        s3 == [s2 EXCEPT !.hostapd = @ \ {s2.hostapd_handle}, !.hostapd_handle = 0]
        s4 == [s3 EXCEPT !.hostapd = {}]       \* pkill -f HOSTAPD_CONF_PATH
    IN [s4 EXCEPT !.files = {}]

\* start_ap returns to run_daemon: to `start_ap(..).await?` at startup
\* (lines 154-159) or to the restart in the Connect handler (lines 252-258)
ApReturn(result) ==
    IF local.ap_caller = "startup"
    THEN /\ local' = [local EXCEPT !.ap_caller = None, !.child = 0]
         /\ IF result = "ok" THEN pc' = "set_ap_running" /\ exit' = exit
            ELSE Return("err")
    ELSE /\ local' = [local EXCEPT !.ap_caller = None, !.child = 0]
         /\ pc' = "cmd_failed"
         /\ exit' = exit

\* start_ap_inner fails with `?` or bail!: control goes to start_ap's error arm
ApFail == pc' = "ap_failed" /\ exit' = exit

\* prepare_device_for_ap: release the device, stop iwd.service, wait for it to
\* be inactive, wait for the station link to be down
ApPrepare ==
    /\ pc = "start_ap"
    /\ \E stopped \in BOOLEAN, link_down \in BOOLEAN :
         LET active == IF stopped THEN host.active \ {"iwd"} ELSE host.active
         IN /\ host' = [host EXCEPT !.active = active, !.managed = FALSE,
                                    !.autoconnect = FALSE]
            /\ hist' = [hist EXCEPT !.start_ap_called = TRUE, !.ap_failed = FALSE,
                                    !.station = @ \cap active]
            /\ IF "iwd" \in active \/ ~link_down THEN ApFail
               ELSE pc' = "ap_configs" /\ exit' = exit
    /\ UNCHANGED <<wifi_state, state_tx, queue, waiting, rx_open, local, sup, disk,
                   tasks, workload>>

\* lines 43-99: interface down and flushed, the two config files written
ApWriteConfigs ==
    /\ pc = "ap_configs"
    /\ host' = [host EXCEPT !.addr = FALSE]
    /\ \/ ApFail /\ UNCHANGED <<sup, hist>>       \* create_dir_all or the first write fails
       \/ /\ ApFail                               \* the second write fails
          /\ sup' = [sup EXCEPT !.files = @ \cup {HOSTAPD_CONF_PATH}]
          /\ hist' = [hist EXCEPT !.conf_written = TRUE]
       \/ /\ pc' = "ap_hostapd" /\ exit' = exit
          /\ sup' = [sup EXCEPT !.files = @ \cup {HOSTAPD_CONF_PATH, DNSMASQ_CONF_PATH}]
          /\ hist' = [hist EXCEPT !.conf_written = TRUE]
    /\ UNCHANGED <<wifi_state, state_tx, queue, waiting, rx_open, local, disk, tasks,
                   workload>>

\* lines 104-108: Command::new("hostapd").spawn()
ApSpawnHostapd ==
    /\ pc = "ap_hostapd"
    /\ \/ ApFail /\ UNCHANGED <<sup, local>>
       \/ /\ sup' = [sup EXCEPT !.spawned = @ + 1, !.hostapd = @ \cup {sup.spawned + 1}]
          /\ local' = [local EXCEPT !.child = sup.spawned + 1]
          /\ pc' = "ap_hostapd_settle" /\ exit' = exit
    /\ UNCHANGED <<wifi_state, state_tx, queue, waiting, rx_open, host, disk, tasks,
                   workload, hist>>

\* lines 111-126: after the settle delay, try_wait; the handle is stored
ApHostapdSettle ==
    /\ pc = "ap_hostapd_settle"
    /\ \/ ApFail /\ sup' = [sup EXCEPT !.hostapd = @ \ {local.child}]   \* exited early
       \/ ApFail /\ sup' = sup                                          \* try_wait fails
       \/ /\ sup' = [sup EXCEPT !.hostapd_handle = local.child]
          /\ pc' = "ap_address" /\ exit' = exit
    /\ UNCHANGED <<wifi_state, state_tx, queue, waiting, rx_open, local, host, disk,
                   tasks, workload, hist>>

\* variant of the address step that does not wait for the address to show up
ApAssignAddressUnchecked ==
    /\ pc = "ap_address"
    /\ \/ ApFail /\ host' = host
       \/ /\ host' \in {host, [host EXCEPT !.addr = TRUE]}
          /\ pc' = "ap_dnsmasq" /\ exit' = exit
    /\ UNCHANGED <<wifi_state, state_tx, queue, waiting, rx_open, local, sup, disk,
                   tasks, workload, hist>>

\* lines 129-142: ip addr add, ip link set up, wait_for_ip_assignment
ApAssignAddress ==
    /\ pc = "ap_address"
    /\ \/ ApFail /\ host' = host                          \* a command cannot be run
       \/ ApFail /\ host' = host                          \* the address never shows up
       \/ /\ host' = [host EXCEPT !.addr = TRUE]
          /\ pc' = "ap_dnsmasq" /\ exit' = exit
    /\ UNCHANGED <<wifi_state, state_tx, queue, waiting, rx_open, local, sup, disk,
                   tasks, workload, hist>>

\* lines 146-151: Command::new("dnsmasq").spawn()
ApSpawnDnsmasq ==
    /\ pc = "ap_dnsmasq"
    /\ \/ ApFail /\ UNCHANGED <<sup, local>>
       \/ /\ sup' = [sup EXCEPT !.spawned = @ + 1, !.dnsmasq = @ \cup {sup.spawned + 1}]
          /\ local' = [local EXCEPT !.child = sup.spawned + 1]
          /\ pc' = "ap_dnsmasq_settle" /\ exit' = exit
    /\ UNCHANGED <<wifi_state, state_tx, queue, waiting, rx_open, host, disk, tasks,
                   workload, hist>>

\* lines 153-172: after the settle delay, try_wait; the handle is stored; Ok(())
ApDnsmasqSettle ==
    /\ pc = "ap_dnsmasq_settle"
    /\ \/ /\ ApFail                                       \* exited early: stop_ap, bail
          /\ sup' = stop_ap([sup EXCEPT !.dnsmasq = @ \ {local.child}])
          /\ local' = local
       \/ ApFail /\ UNCHANGED <<sup, local>>              \* try_wait fails
       \/ /\ sup' = [sup EXCEPT !.dnsmasq_handle = local.child]
          /\ ApReturn("ok")
    /\ UNCHANGED <<wifi_state, state_tx, queue, waiting, rx_open, host, disk, tasks,
                   workload, hist>>

\* restore_device_after_ap: start iwd.service, Managed and Autoconnect back to
\* true
restore_device_after_ap(h) ==
    [h EXCEPT !.active = @ \cup {"iwd"}, !.managed = TRUE, !.autoconnect = TRUE]

\* variant of start_ap's error arm that returns the error without the teardown
ApFailedKeepsHelpers ==
    /\ pc = "ap_failed"
    /\ sup' = sup
    /\ host' = restore_device_after_ap(host)
    /\ ApReturn("err")
    /\ hist' = [hist EXCEPT !.ap_failed = TRUE]
    /\ UNCHANGED <<wifi_state, state_tx, queue, waiting, rx_open, disk, tasks,
                   workload>>

\* start_ap's error arm, lines 30-35: stop_ap, restore_device_after_ap, Err
ApFailed ==
    /\ pc = "ap_failed"
    /\ sup' = stop_ap(sup)
    /\ host' = restore_device_after_ap(host)
    /\ ApReturn("err")
    /\ hist' = [hist EXCEPT !.ap_failed = TRUE]
    /\ UNCHANGED <<wifi_state, state_tx, queue, waiting, rx_open, disk, tasks,
                   workload>>

(***************************************************************************)
(* run_daemon: AP and portal up.                                           *)
(***************************************************************************)
\* lines 143-149
SetAwaiting ==
    /\ pc = "set_awaiting"
    /\ Publish([wifi_state EXCEPT !.available_networks = local.networks,
                                  !.status = "AwaitingCredentials",
                                  !.last_scan = "Some"])
    /\ local' = [local EXCEPT !.ap_caller = "startup", !.networks = <<>>,
                              !.creds_store = EmptyStore, !.conn_error = None]
    /\ pc' = "start_ap"
    /\ UNCHANGED <<exit, queue, waiting, rx_open, sup, host, disk, tasks, workload,
                   hist>>

\* lines 161-167
SetApRunning ==
    /\ pc = "set_ap_running"
    /\ Publish([wifi_state EXCEPT !.ap_running = TRUE, !.ap_ssid = "HyperRecovery",
                                  !.portal_url = "http://ap_ip"])
    /\ pc' = "bind_ipc"
    /\ UNCHANGED <<exit, queue, waiting, rx_open, local, sup, host, disk, tasks,
                   workload, hist>>

\* lines 170-176: let listener = UnixListener::bind(socket_path)?; spawn the IPC task
BindIpc ==
    /\ pc = "bind_ipc"
    /\ \/ Return("err") /\ tasks' = tasks
       \/ /\ tasks' = [tasks EXCEPT !.socket = TRUE, !.ipc = "running"]
          /\ pc' = "spawn_tasks" /\ exit' = exit
    /\ UNCHANGED <<wifi_state, state_tx, queue, waiting, rx_open, local, sup, host,
                   disk, workload, hist>>

\* lines 179-186: spawn the web task and the control loop task
SpawnTasks ==
    /\ pc = "spawn_tasks"
    /\ tasks' = [tasks EXCEPT !.web = "running"]
    /\ pc' = "loop"
    /\ UNCHANGED <<exit, wifi_state, state_tx, queue, waiting, rx_open, local, sup,
                   host, disk, workload, hist>>

(***************************************************************************)
(* The command queue.                                                      *)
(***************************************************************************)
\* the bounded channel has a free permit
HasRoom(q) == Len(q) < CommandQueueCapacity

\* variant of recv that hands out the newest command
recv_newest(q) == [cmd |-> q[Len(q)], rest |-> SubSeq(q, 1, Len(q) - 1)]

\* command_rx.recv(): the oldest command, and what stays queued
recv(q) == [cmd |-> Head(q), rest |-> Tail(q)]

\* the control loop takes a command of the given kind off the queue
Dequeue(kind) ==
    /\ pc = "loop"
    /\ queue # <<>>
    /\ recv(queue).cmd.kind = kind
    /\ queue' = recv(queue).rest
    /\ hist' = [hist EXCEPT !.handled = @ + 1, !.last_seq = recv(queue).cmd.seq,
                            !.ap_failed = FALSE]

\* command_tx.send(cmd).await in a request handler
Send(cmd) ==
    IF ~rx_open
    THEN /\ UNCHANGED <<queue, waiting>>               \* Err(SendError)
         /\ hist' = [hist EXCEPT !.served = @ + 1]
    ELSE IF HasRoom(queue) /\ waiting = <<>>
    THEN /\ queue' = Append(queue, [cmd EXCEPT !.seq = hist.enqueued + 1])
         /\ waiting' = waiting
         /\ hist' = [hist EXCEPT !.served = @ + 1, !.enqueued = @ + 1]
    ELSE /\ waiting' = Append(waiting, cmd)            \* suspended until a permit is free
         /\ queue' = queue
         /\ hist' = [hist EXCEPT !.served = @ + 1]

\* a suspended send gets its permit
SendResumes ==
    /\ rx_open
    /\ waiting # <<>>
    /\ HasRoom(queue)
    /\ queue' = Append(queue, [Head(waiting) EXCEPT !.seq = hist.enqueued + 1])
    /\ waiting' = Tail(waiting)
    /\ hist' = [hist EXCEPT !.enqueued = @ + 1]
    /\ UNCHANGED <<pc, exit, wifi_state, state_tx, rx_open, local, sup, host, disk,
                   tasks, workload>>

(***************************************************************************)
(* HTTP and IPC request handlers.                                          *)
(***************************************************************************)
CanServe(task, kind) ==
    /\ exit = "running"
    /\ tasks[task] = "running"
    /\ kind \in workload.kinds
    /\ hist.served < workload.max

HandlerFrame ==
    UNCHANGED <<pc, exit, wifi_state, state_tx, rx_open, local, sup, host, disk, tasks,
                workload>>

\* GET /api/status and GET /: read the state, render the snapshot
api_status ==
    /\ CanServe("web", "GetStatus")
    /\ hist' = [hist EXCEPT !.served = @ + 1]
    /\ UNCHANGED <<queue, waiting>>
    /\ HandlerFrame

\* variant of api_connect that writes the status itself
api_connect_writes_status ==
    /\ CanServe("web", "Connect")
    /\ \E ssid \in SSIDs, save \in BOOLEAN :
         /\ Send(Cmd("Connect", ssid, "letmein", save, None))
         /\ wifi_state' = [wifi_state EXCEPT !.status = "Connecting",
                                             !.connecting_to = ssid]
    /\ UNCHANGED <<pc, exit, state_tx, rx_open, local, sup, host, disk, tasks,
                   workload>>

\* POST /api/connect
api_connect ==
    /\ CanServe("web", "Connect")
    /\ \E ssid \in SSIDs, save \in BOOLEAN :
         Send(Cmd("Connect", ssid, "letmein", save, None))
    /\ HandlerFrame

\* POST /api/scan
api_scan ==
    /\ CanServe("web", "Scan")
    /\ Send(Cmd("Scan", None, None, FALSE, None))
    /\ HandlerFrame

\* POST /api/backend
api_backend ==
    /\ CanServe("web", "SwitchBackend")
    /\ \E backend \in Backends : Send(Cmd("SwitchBackend", None, None, FALSE, backend))
    /\ HandlerFrame

\* handle_client, IpcRequest::GetStatus
ipc_get_status ==
    /\ CanServe("ipc", "GetStatus")
    /\ hist' = [hist EXCEPT !.served = @ + 1]
    /\ UNCHANGED <<queue, waiting>>
    /\ HandlerFrame

\* handle_client, IpcRequest::Scan
ipc_scan ==
    /\ CanServe("ipc", "Scan")
    /\ Send(Cmd("Scan", None, None, FALSE, None))
    /\ HandlerFrame

\* handle_client, IpcRequest::Connect
ipc_connect ==
    /\ CanServe("ipc", "Connect")
    /\ \E ssid \in SSIDs, save \in BOOLEAN :
         Send(Cmd("Connect", ssid, "letmein", save, None))
    /\ HandlerFrame

\* handle_client, IpcRequest::Shutdown
ipc_shutdown ==
    /\ CanServe("ipc", "Shutdown")
    /\ Send(Cmd("Shutdown", None, None, FALSE, None))
    /\ HandlerFrame

(***************************************************************************)
(* run_daemon: the control loop.                                           *)
(***************************************************************************)
\* the states of the Connect handler between its first write and its last
ConnectHandlerPcs ==
    {"cmd_stop_ap", "connect", "conn_attempt", "conn_wait", "conn_decide",
     "cmd_connected", "start_ap",
     "ap_configs", "ap_hostapd", "ap_hostapd_settle", "ap_address", "ap_dnsmasq",
     "ap_dnsmasq_settle", "ap_failed", "cmd_failed"}

\* variant of the Scan arm that drops the old scan results
HandleScanClearsNetworks ==
    /\ Dequeue("Scan")
    /\ Publish([wifi_state EXCEPT !.status = "Scanning", !.available_networks = <<>>])
    /\ UNCHANGED <<pc, exit, waiting, rx_open, local, sup, host, disk, tasks,
                   workload>>

\* ControlCommand::Scan: logged only
HandleScan ==
    /\ Dequeue("Scan")
    /\ UNCHANGED <<pc, exit, wifi_state, state_tx, waiting, rx_open, local, sup, host,
                   disk, tasks, workload>>

\* variant of the first write that does not record the target
ConnectingStateNoTarget(s, ssid) ==
    [s EXCEPT !.status = "Connecting", !.last_error = None]

\* variant of the first write that keeps the error of the last attempt
ConnectingStateKeepsError(s, ssid) ==
    [s EXCEPT !.status = "Connecting", !.connecting_to = ssid]

\* lines 200-206
ConnectingState(s, ssid) ==
    [s EXCEPT !.status = "Connecting", !.connecting_to = ssid, !.last_error = None]

\* ControlCommand::Connect, lines 196-209: the first write, then the 1.2 s sleep
HandleConnect ==
    /\ Dequeue("Connect")
    /\ local' = [local EXCEPT !.cmd = recv(queue).cmd, !.caller = "cmd"]
    /\ Publish(ConnectingState(wifi_state, recv(queue).cmd.ssid))
    /\ pc' = "cmd_stop_ap"
    /\ UNCHANGED <<exit, waiting, rx_open, sup, host, disk, tasks, workload>>

\* lines 211-214: stop_ap, then connect_to_network is called
CmdStopAp ==
    /\ pc = "cmd_stop_ap"
    /\ sup' = stop_ap(sup)
    /\ pc' = "connect"
    /\ UNCHANGED <<exit, wifi_state, state_tx, queue, waiting, rx_open, local, host,
                   disk, tasks, workload, hist>>

\* CredentialsStore::save_credential
\* variant of save_credential that starts the count again on every call
save_credential_recount(store, ssid, password) ==
    [s \in DOMAIN store \cup {ssid} |->
        IF s = ssid THEN [password |-> password, last_used |-> "now", success_count |-> 1]
        ELSE store[s]]

\* CredentialsStore::save_credential
save_credential(store, ssid, password) ==
    IF ssid \in DOMAIN store
    THEN [store EXCEPT ![ssid] = [password |-> password, last_used |-> "now",
                                  success_count |-> @.success_count + 1]]
    ELSE [s \in DOMAIN store \cup {ssid} |->
            IF s = ssid THEN [password |-> password, last_used |-> "now",
                              success_count |-> 1]
            ELSE store[s]]

\* variant of the last write that leaves ap_running as it is
ConnectedStateKeepsAp(s, ssid) ==
    [s EXCEPT !.status = "Connected", !.connected_ssid = ssid, !.connecting_to = None]

\* lines 237-242
ConnectedState(s, ssid) ==
    [s EXCEPT !.status = "Connected", !.connected_ssid = ssid, !.connecting_to = None,
              !.ap_running = FALSE]

\* lines 222-245: the Ok arm: credentials saved if asked for, the state written
CmdConnected ==
    /\ pc = "cmd_connected"
    /\ IF local.cmd.save
       THEN \E loaded \in {disk, EmptyStore} :
               \/ disk' = save_credential(loaded, local.cmd.ssid, local.cmd.password)
               \/ disk' = disk                          \* creds.save() fails
       ELSE disk' = disk
    /\ Publish(ConnectedState(wifi_state, local.cmd.ssid))
    /\ local' = [local EXCEPT !.cmd = NoCmd, !.caller = None]
    /\ pc' = "cmd_settle"
    /\ UNCHANGED <<exit, queue, waiting, rx_open, sup, host, tasks, workload, hist>>

\* the control loop task ends: command_rx is dropped with what it still holds,
\* suspended sends fail
LoopEnds ==
    /\ pc' = "teardown"
    /\ rx_open' = FALSE
    /\ waiting' = <<>>

\* variant of the Ok arm that goes back to the loop after the sleep
CmdContinue ==
    /\ pc = "cmd_settle"
    /\ pc' = "loop"
    /\ UNCHANGED <<exit, wifi_state, state_tx, queue, waiting, rx_open, local, sup,
                   host, disk, tasks, workload, hist>>

\* line 245-246: the 5 s sleep, then break
CmdBreak ==
    /\ pc = "cmd_settle"
    /\ LoopEnds
    /\ UNCHANGED <<exit, wifi_state, state_tx, queue, local, sup, host, disk, tasks,
                   workload, hist>>

\* variant of the Err arm's write that keeps connecting_to
FailedStateKeepsTarget(s, e) ==
    [s EXCEPT !.status = "Failed", !.last_error = e, !.ap_running = TRUE]

\* lines 260-265
FailedState(s, e) ==
    [s EXCEPT !.status = "Failed", !.connecting_to = None, !.last_error = e,
              !.ap_running = TRUE]

\* lines 248-266: the Err arm after the AP restart
CmdFailed ==
    /\ pc = "cmd_failed"
    /\ Publish(FailedState(wifi_state, local.conn_error))
    /\ local' = [local EXCEPT !.cmd = NoCmd, !.caller = None, !.conn_error = None]
    /\ pc' = "loop"
    /\ UNCHANGED <<exit, queue, waiting, rx_open, sup, host, disk, tasks, workload,
                   hist>>

\* ControlCommand::SwitchBackend: set status SwitchingBackend
HandleSwitchBackend ==
    /\ Dequeue("SwitchBackend")
    /\ local' = [local EXCEPT !.cmd = recv(queue).cmd]
    /\ Publish([wifi_state EXCEPT !.status = "SwitchingBackend"])
    /\ pc' = "cmd_switch"
    /\ UNCHANGED <<exit, waiting, rx_open, sup, host, disk, tasks, workload>>

Other(backend) == IF backend = "iwd" THEN "wpa_supplicant" ELSE "iwd"

\* switch_wifi_backend: the script run under systemd-run
CmdSwitch ==
    /\ pc = "cmd_switch"
    /\ LET b == local.cmd.backend
       IN \/ host' = [host EXCEPT !.backend = b]      \* the unit is not available: exit 2
          \/ host' = [host EXCEPT !.backend = b,      \* systemctl start fails
                                  !.active = @ \ {Other(b)}]
          \/ host' = [host EXCEPT !.backend = b,
                                  !.active = (@ \ {Other(b)}) \cup {b}]
    /\ hist' = [hist EXCEPT !.station = @ \ {Other(local.cmd.backend)}]
    /\ local' = [local EXCEPT !.cmd = NoCmd]
    /\ pc' = "loop"
    /\ UNCHANGED <<exit, wifi_state, state_tx, queue, waiting, rx_open, sup, disk,
                   tasks, workload>>

\* ControlCommand::Shutdown: break
HandleShutdown ==
    /\ Dequeue("Shutdown")
    /\ LoopEnds
    /\ UNCHANGED <<exit, wifi_state, state_tx, local, sup, host, disk, tasks,
                   workload>>

\* _ = signal::ctrl_c(): break
HandleSigint ==
    /\ pc = "loop"
    /\ LoopEnds
    /\ UNCHANGED <<exit, wifi_state, state_tx, queue, local, sup, host, disk, tasks,
                   workload, hist>>

\* lines 283-292: stop_ap, abort the IPC and web tasks, Ok(())
Teardown ==
    /\ pc = "teardown"
    /\ sup' = stop_ap(sup)
    /\ tasks' = [tasks EXCEPT !.ipc = "aborted", !.web = "aborted"]
    /\ Return("ok")
    /\ UNCHANGED <<wifi_state, state_tx, queue, waiting, rx_open, local, host, disk,
                   workload, hist>>

Next ==
    \/ Resolve
    \/ CheckConnectivity
    \/ GracePoll
    \/ GraceElapsed
    \/ SetScanning
    \/ ScanNetworks
    \/ LoadCredentials
    \/ ConnPreamble
    \/ ConnAttempt
    \/ ConnWaitRead
    \/ ConnWaitDecide
    \/ ApPrepare
    \/ ApWriteConfigs
    \/ ApSpawnHostapd
    \/ ApHostapdSettle
    \/ ApAssignAddress
    \/ ApSpawnDnsmasq
    \/ ApDnsmasqSettle
    \/ ApFailed
    \/ SetAwaiting
    \/ SetApRunning
    \/ BindIpc
    \/ SpawnTasks
    \/ SendResumes
    \/ api_status
    \/ api_connect
    \/ api_scan
    \/ api_backend
    \/ ipc_get_status
    \/ ipc_scan
    \/ ipc_connect
    \/ ipc_shutdown
    \/ HandleScan
    \/ HandleConnect
    \/ CmdStopAp
    \/ CmdConnected
    \/ CmdBreak
    \/ CmdFailed
    \/ HandleSwitchBackend
    \/ CmdSwitch
    \/ HandleShutdown
    \/ HandleSigint
    \/ Teardown

Spec == Init /\ [][Next]_vars

(***************************************************************************)
(* Properties.                                                             *)
(***************************************************************************)

\* C1: in every reachable WifiState, status Connected implies that
\* connected_ssid is set and ap_running is false.
C1_ConnectedHasSsidAndNoAp ==
    wifi_state.status = "Connected" =>
        /\ wifi_state.connected_ssid # None
        /\ wifi_state.ap_running = FALSE
        /\ state_tx = wifi_state

\* a Connect command has succeeded and the daemon has returned
C1_Witness ==
    /\ wifi_state.status = "Connected"
    /\ wifi_state.connected_ssid \in SSIDs
    /\ hist.handled >= 1
    /\ pc = "done"

\* C2: whenever ap_running is true, the Station Connector is not executing.
C2_ApRunningExcludesConnector ==
    wifi_state.ap_running => pc \notin ConnectorPcs

\* C3: hostapd is never alive while the Station Connector executes or while
\* a WiFi backend service started for a station connection is active.
C3_RadioHeldByOneMode ==
    sup.hostapd # {} =>
        /\ pc \notin ConnectorPcs
        /\ hist.station \cap host.active = {}

\* C4: for every Connect command the loop handles, Connecting with
\* connecting_to = the requested SSID is written and published before the AP
\* is stopped and before the status becomes Connected or Failed.
C4_ConnectingWhileHandling ==
    local.caller = "cmd" =>
        /\ pc \in ConnectHandlerPcs
        /\ wifi_state.status = "Connecting"
        /\ wifi_state.connecting_to = local.cmd.ssid
        /\ state_tx = wifi_state

C4_ConnectingFirst ==
    /\ (local.caller # "cmd" /\ local'.caller = "cmd") =>
          /\ sup' = sup
          /\ state_tx'.status = "Connecting"
          /\ state_tx'.connecting_to = local'.cmd.ssid
    /\ (wifi_state'.status \in {"Connected", "Failed"} /\ wifi_state' # wifi_state) =>
          /\ local.caller = "cmd"
          /\ state_tx.status = "Connecting"
          /\ state_tx.connecting_to = local.cmd.ssid
    /\ (local.caller = "cmd" /\ sup' # sup) => state_tx.status = "Connecting"

C4_ConnectingPublishedFirst ==
    []C4_ConnectingWhileHandling /\ [][C4_ConnectingFirst]_vars

\* Connecting is published and the AP is still up
C4_Witness ==
    /\ pc = "cmd_stop_ap"
    /\ sup.hostapd # {}
    /\ sup.dnsmasq # {}
    /\ state_tx.status = "Connecting"
    /\ state_tx.connecting_to = local.cmd.ssid

\* C5: commands are handled in the order they were enqueued, each at most
\* once; the queue never holds more than 32 commands; a producer that finds
\* the queue full waits, and no queued command is dropped or overwritten.
C5_QueueInOrder ==
    /\ Len(queue) <= CommandQueueCapacity
    /\ \A i \in 1..Len(queue) : queue[i].seq = hist.handled + i
    /\ hist.enqueued = hist.handled + Len(queue)
    /\ hist.last_seq = hist.handled

C5_FullQueueWaits ==
    (rx_open /\ Len(queue) = CommandQueueCapacity /\ hist'.served # hist.served) =>
        /\ queue' = queue
        /\ Len(waiting') = Len(waiting) + 1
        /\ SubSeq(waiting', 1, Len(waiting)) = waiting

C5_FifoBoundedQueue ==
    []C5_QueueInOrder /\ [][C5_FullQueueWaits]_vars

\* the queue is full, a producer is suspended, and the loop has handled commands
C5_Witness ==
    /\ Len(queue) = CommandQueueCapacity
    /\ waiting # <<>>
    /\ hist.handled >= 1

\* C6: a request handler never changes WifiState; its only effect is at most
\* one command appended to the queue; every change of WifiState is a step of
\* the orchestrator.
C6_HandlerStep ==
    /\ hist'.served # hist.served =>
          /\ wifi_state' = wifi_state
          /\ state_tx' = state_tx
          /\ pc' = pc
          /\ \/ queue' = queue
             \/ /\ Len(queue') = Len(queue) + 1
                /\ SubSeq(queue', 1, Len(queue)) = queue
    /\ hist'.enqueued # hist.enqueued =>
          wifi_state' = wifi_state /\ state_tx' = state_tx
    /\ wifi_state' # wifi_state =>
          pc' # pc /\ hist'.served = hist.served /\ hist'.enqueued = hist.enqueued

C6_HandlersLeaveWifiState == [][C6_HandlerStep]_vars

\* two requests were served, each left one command, the state is the orchestrator's
C6_Witness ==
    /\ hist.served = 2
    /\ Len(queue) = 2
    /\ \E i \in 1..2 : queue[i].kind = "Connect"
    /\ wifi_state.status = "AwaitingCredentials"
    /\ wifi_state.ap_running

\* C7: on every path on which the daemon returns after start_ap was called,
\* no hostapd or dnsmasq the daemon spawned is left running and the IPC and
\* HTTP tasks are cancelled.
C7_TeardownAlways ==
    (pc = "done" /\ hist.start_ap_called) =>
        /\ sup.hostapd = {}
        /\ sup.dnsmasq = {}
        /\ tasks.ipc # "running"
        /\ tasks.web # "running"

\* C8: FULL connectivity at the initial check: the daemon exits with success
\* and never scans, writes a helper config, spawns a helper, binds the IPC
\* socket or starts the HTTP server.
C8_OnlineAtStartExitsClean ==
    hist.initial_full =>
        /\ pc = "done"
        /\ exit = "ok"
        /\ hist.scans = 0
        /\ ~hist.conf_written
        /\ sup.files = {}
        /\ sup.spawned = 0
        /\ ~tasks.socket
        /\ tasks.ipc = "none"
        /\ tasks.web = "none"

C8_Witness ==
    /\ hist.initial_full
    /\ pc = "done"
    /\ exit = "ok"

\* C9: the grace wait ends in success only if FULL connectivity was observed;
\* when the deadline is reached or a poll fails, the daemon does not return
\* success but goes on to the scan.
C9_GraceSuccessOnlyIfFull ==
    /\ (exit = "ok" /\ ~hist.initial_full /\ hist.scans = 0) => hist.grace = "full"
    /\ hist.grace \in {"elapsed", "poll_err"} => (pc # "done" \/ hist.scans > 0)

\* some scanned network has an entry in the store
HasKnownNetwork(store, nets) ==
    \E i \in 1..Len(nets) : nets[i].ssid \in DOMAIN store

\* C10: after the scan the Station Connector runs with a saved password
\* exactly when a scanned network has an entry in the store; if it succeeds
\* the daemon exits with success and never starts the AP, the IPC endpoint or
\* the portal; if it fails the daemon goes on to AwaitingCredentials and
\* starts the AP.
C10_AutoConnect ==
    /\ (pc \in ConnectorPcs /\ local.caller = "auto") =>
          /\ HasKnownNetwork(local.creds_store, local.networks)
          /\ local.cmd.ssid \in DOMAIN local.creds_store
          /\ \E i \in 1..Len(local.networks) : local.networks[i].ssid = local.cmd.ssid
          /\ local.cmd.password = local.creds_store[local.cmd.ssid].password
    /\ (pc = "set_awaiting" /\ hist.auto = "none") =>
          ~HasKnownNetwork(local.creds_store, local.networks)
    /\ hist.auto = "ok" =>
          /\ pc = "done" /\ exit = "ok"
          /\ ~hist.start_ap_called
          /\ sup.spawned = 0
          /\ ~tasks.socket /\ tasks.ipc = "none" /\ tasks.web = "none"
    /\ hist.auto = "err" =>
          /\ pc = "set_awaiting" \/ wifi_state.status # "Scanning"
          /\ pc \notin {"set_awaiting", "start_ap"} => hist.start_ap_called
          /\ exit # "ok" \/ hist.start_ap_called

\* the auto-connect failed and the AP is up
C10_Witness ==
    /\ hist.auto = "err"
    /\ wifi_state.status = "AwaitingCredentials"
    /\ sup.hostapd # {}
    /\ sup.dnsmasq # {}

\* C11: after a successful auto-connect with the saved credentials of SSID S,
\* the credentials file holds for S a success_count one greater than before
\* the run and an updated last_used.
C11_AutoConnectCountsSuccess ==
    hist.auto = "ok" =>
        \E before \in CredFiles :
           \E S \in DOMAIN before :
              disk = save_credential(before, S, before[S].password)

\* the errors connect_to_network returns
ConnectorErrors ==
    {"bus error", "Device activation failed",
     "Connection timed out waiting for device activation",
     "Connection failed after 3 attempts"}

\* C12: when the Station Connector fails for a Connect command, the
\* orchestrator restarts the AP, writes Failed with last_error = the
\* connector's error and connecting_to cleared, and the loop keeps running.
C12_FailedState ==
    /\ wifi_state.status = "Failed" =>
          /\ wifi_state.last_error \in ConnectorErrors
          /\ wifi_state.connecting_to = None
          /\ state_tx = wifi_state
    /\ pc = "cmd_failed" =>
          /\ local.caller = "cmd"
          /\ local.conn_error \in ConnectorErrors
          /\ rx_open

C12_FailureStep ==
    /\ (pc \in ConnectorPcs /\ local.caller = "cmd"
           /\ pc' \notin ConnectorPcs \cup {"cmd_connected"}) =>
          /\ pc' = "start_ap"
          /\ local'.ap_caller = "restart"
          /\ local'.conn_error \in ConnectorErrors
    /\ (pc # "cmd_failed" /\ pc' = "cmd_failed") =>
          /\ pc \in {"ap_dnsmasq_settle", "ap_failed"}
          /\ hist.start_ap_called
    /\ (pc = "cmd_failed" /\ pc' # "cmd_failed") =>
          /\ pc' = "loop"
          /\ rx_open'
          /\ queue' = queue
          /\ wifi_state'.status = "Failed"
          /\ wifi_state'.last_error = local.conn_error

C12_ConnectFailureRecovers ==
    []C12_FailedState /\ [][C12_FailureStep]_vars

\* a Connect failed, and the command queued behind it has been handled too
C12_Witness ==
    /\ wifi_state.status = "Failed"
    /\ wifi_state.last_error = "Connection failed after 3 attempts"
    /\ sup.hostapd # {}
    /\ hist.handled = 2
    /\ pc = "loop"

\* C13: whenever start_ap has failed, at startup or at the restart after a
\* failed Connect, the AP is not considered running afterwards: ap_running is
\* false and the status is Failed with last_error set.
C13_FailedApNotRunning ==
    (hist.ap_failed /\ pc \in {"loop", "teardown", "done"}) =>
        /\ wifi_state.ap_running = FALSE
        /\ wifi_state.status = "Failed"
        /\ wifi_state.last_error # None

\* the positions inside start_ap
StartApPcs ==
    {"start_ap", "ap_configs", "ap_hostapd", "ap_hostapd_settle", "ap_address",
     "ap_dnsmasq", "ap_dnsmasq_settle", "ap_failed"}

\* nothing of an AP is left: no stored handle, no helper alive, no config file
SupervisorClean(s) ==
    /\ s.hostapd_handle = 0
    /\ s.dnsmasq_handle = 0
    /\ s.hostapd = {}
    /\ s.dnsmasq = {}
    /\ s.files = {}

\* C14: whenever start_ap returns an error, at whatever step it failed, the
\* full stop_ap teardown has run and the device restoration has been
\* attempted: handles empty, no helper of this start alive, config files
\* removed.
C14_AfterFailedStart ==
    (hist.ap_failed /\ pc \notin StartApPcs) =>
        /\ SupervisorClean(sup)
        /\ "iwd" \in host.active
        /\ host.managed
        /\ host.autoconnect

C14_StartApReturn ==
    (pc \in StartApPcs /\ pc' \notin StartApPcs) =>
        \/ /\ pc = "ap_dnsmasq_settle"                    \* Ok(())
           /\ sup'.hostapd_handle \in sup'.hostapd
           /\ sup'.dnsmasq_handle \in sup'.dnsmasq
           /\ ~hist'.ap_failed
        \/ /\ pc = "ap_failed"                            \* Err(err)
           /\ hist'.ap_failed
           /\ SupervisorClean(sup')
           /\ host' = restore_device_after_ap(host)

C14_FailedStartTornDown ==
    []C14_AfterFailedStart /\ [][C14_StartApReturn]_vars

\* the restart of the AP failed after it had spawned a helper
C14_Witness ==
    /\ hist.ap_failed
    /\ pc = "cmd_failed"
    /\ sup.spawned >= 3
    /\ SupervisorClean(sup)

\* C15: in start_ap dnsmasq is spawned only after hostapd was spawned and
\* found alive after its settle delay, and after the AP address was observed
\* on the interface; the address is assigned only after hostapd passed its
\* liveness check.
C15_DnsmasqNeedsBeaconAndAddress ==
    /\ pc \in {"ap_address", "ap_dnsmasq", "ap_dnsmasq_settle"} =>
          /\ sup.hostapd_handle # 0
          /\ sup.hostapd_handle \in sup.hostapd
    /\ pc \in {"ap_dnsmasq", "ap_dnsmasq_settle"} => host.addr
    /\ pc \in {"start_ap", "ap_configs", "ap_hostapd", "ap_hostapd_settle",
               "ap_address", "ap_dnsmasq"} => sup.dnsmasq = {}

C15_SpawnOrder ==
    /\ sup'.dnsmasq \ sup.dnsmasq # {} =>
          /\ pc = "ap_dnsmasq"
          /\ sup.hostapd_handle \in sup.hostapd
          /\ host.addr
    /\ (host'.addr /\ ~host.addr) =>
          /\ pc = "ap_address"
          /\ sup.hostapd_handle \in sup.hostapd
    /\ (sup'.hostapd_handle # 0 /\ sup.hostapd_handle = 0) =>
          /\ pc = "ap_hostapd_settle"
          /\ sup'.hostapd_handle = local.child
          /\ local.child \in sup.hostapd
          /\ ~host.addr

C15_BeaconThenAddressThenDnsmasq ==
    []C15_DnsmasqNeedsBeaconAndAddress /\ [][C15_SpawnOrder]_vars

\* dnsmasq has just been spawned
C15_Witness ==
    /\ pc = "ap_dnsmasq_settle"
    /\ sup.dnsmasq # {}
    /\ sup.hostapd_handle \in sup.hostapd
    /\ host.addr

\* C16: hostapd is spawned only after the preparation has completed: device
\* released, the WiFi backend's unit inactive, interface down and flushed.
C16_BeaconAfterPreparation ==
    pc = "ap_hostapd_settle" =>
        /\ ~host.managed
        /\ ~host.autoconnect
        /\ host.backend \notin host.active
        /\ "iwd" \notin host.active
        /\ ~host.addr

ConnectorReturnsOk ==
    /\ pc \in ConnectorPcs
    /\ pc' = "cmd_connected" \/ (pc' = "done" /\ exit' = "ok")

ConnectorReturnsErr ==
    /\ pc \in ConnectorPcs
    /\ pc' \in {"set_awaiting", "start_ap"}

\* C18: an attempt that fails in any way (activation call rejected, the 35 s
\* activation deadline, device State 120) is followed by a further attempt
\* while fewer than 3 have been made; the connector returns such an error
\* only after the third attempt, and never makes a fourth.
C18_ErrOnlyAfterThirdAttempt ==
    /\ local'.attempt <= max_attempts
    /\ (ConnectorReturnsErr /\ pc \in {"conn_attempt", "conn_decide"}
           /\ local'.conn_error # "bus error") =>
          local.attempt = max_attempts

C18_ThreeAttempts == [][C18_ErrOnlyAfterThirdAttempt]_vars

\* C19 as the spec states it: Ok only after State 100 was read; Err only
\* after State 120 was read or the activation deadline passed.
C19_ErrOnlyFailedOrDeadline ==
    /\ ConnectorReturnsOk =>
          pc = "conn_decide" /\ local.dev_state = NM_DEVICE_STATE_ACTIVATED
    /\ ConnectorReturnsErr =>
          /\ pc = "conn_decide"
          /\ local.dev_state = NM_DEVICE_STATE_FAILED \/ local.deadline

C19_Original == [][C19_ErrOnlyFailedOrDeadline]_vars

\* C19, amended: the connector returns Ok only after the device State was
\* read as 100 in that run; it returns Err after State 120 was read, after
\* the activation deadline passed with the State neither 100 nor 120, after
\* the activation call was rejected on the third attempt, or after a bus
\* call failed.
C19_OkNeedsActivated ==
    /\ ConnectorReturnsOk =>
          pc = "conn_decide" /\ local.dev_state = NM_DEVICE_STATE_ACTIVATED
    /\ ConnectorReturnsErr =>
          \/ pc = "conn_decide" /\ local.dev_state = NM_DEVICE_STATE_FAILED
          \/ /\ pc = "conn_decide"
             /\ local.deadline
             /\ local.dev_state \notin {NM_DEVICE_STATE_ACTIVATED, NM_DEVICE_STATE_FAILED}
          \/ /\ pc = "conn_attempt"
             /\ local.attempt = max_attempts
             /\ local'.conn_error = "Connection failed after 3 attempts"
          \/ local'.conn_error = "bus error"

C19_ConnectorResult == [][C19_OkNeedsActivated]_vars

\* the connector returned Err for a Connect command without the device State
\* ever being read: three activation calls were rejected
C19_Witness ==
    /\ pc = "start_ap"
    /\ local.ap_caller = "restart"
    /\ local.caller = "cmd"
    /\ local.conn_error = "Connection failed after 3 attempts"

\* C20: handling a Scan command while the AP is up leaves available_networks
\* and every other field of WifiState unchanged, does not stop or restart
\* the AP helpers, and the loop goes on to the next command.
C20_ScanStep ==
    (pc = "loop" /\ queue # <<>> /\ Head(queue).kind = "Scan"
        /\ hist'.handled = hist.handled + 1) =>
        /\ wifi_state' = wifi_state
        /\ state_tx' = state_tx
        /\ sup' = sup
        /\ host' = host
        /\ disk' = disk
        /\ tasks' = tasks
        /\ queue' = Tail(queue)
        /\ pc' = "loop"
        /\ rx_open'

C20_ScanIsNonDisruptive == [][C20_ScanStep]_vars

\* Scan commands have been handled with the AP up and the scan results kept
C20_Witness ==
    /\ workload = FloodWorkload
    /\ hist.handled >= 2
    /\ pc = "loop"
    /\ wifi_state.status = "AwaitingCredentials"
    /\ wifi_state.available_networks # <<>>
    /\ wifi_state.ap_running
    /\ sup.hostapd_handle \in sup.hostapd
    /\ sup.dnsmasq_handle \in sup.dnsmasq

\* C21: a Connect command changes the credentials file only when the
\* connection succeeded and save is true, and then only the entry of the
\* requested SSID; a failure to persist does not keep the state from
\* becoming Connected.
C21_CredentialsStep ==
    /\ disk' # disk =>
          /\ pc = "cmd_connected"
          /\ local.cmd.save
          /\ local.cmd.ssid \in DOMAIN disk'
          /\ \A s \in (DOMAIN disk \cup DOMAIN disk') \ {local.cmd.ssid} :
                /\ s \in DOMAIN disk
                /\ s \in DOMAIN disk'
                /\ disk'[s] = disk[s]
    /\ (pc = "cmd_connected" /\ pc' # pc) => wifi_state'.status = "Connected"

C21_OnlyRequestedEntryChanges == [][C21_CredentialsStep]_vars

(***************************************************************************)
(* The Credentials Store on its own: load_from, save_credential and        *)
(* save_to, driven by a caller that may call them in any order.            *)
(* Here disk holds the files of the store's directory (the store           *)
(* file and the temporary file of save_to) with their text and mode, local *)
(* holds the caller's CredentialsStore value, and the variables of the     *)
(* daemon keep their initial values.                                       *)
(***************************************************************************)
\* the number of save_credential calls of one run
MaxSaves == 2

Passwords == {"hunter22", "letmein"}

\* CREDENTIALS_PATH, as directory, file stem and extension
CREDENTIALS_PATH ==
    [dir |-> "/var/lib/hyper-connect", stem |-> "credentials", ext |-> "json"]

\* Path::with_extension
with_extension(path, e) == [path EXCEPT !.ext = e]

\* variant of temp_path that writes in place
write_in_place(path) == path

\* let temp_path = path.with_extension("tmp")
temp_path(path) == with_extension(path, "tmp")

\* no file at a path
Absent == [exists |-> FALSE]

\* a file: its text and its permission bits
File(content, mode) == [exists |-> TRUE, content |-> content, mode |-> mode]

\* a text cut short: what a file holds while (or after) a write did not finish
Partial(doc) == [doc EXCEPT !.complete = FALSE]

\* Option<u64> <-> JSON
to_json(opt) == IF opt = None THEN "null" ELSE opt
from_json(v) == IF v = "null" THEN None ELSE v

\* variant of to_string_pretty that leaves success_count out
to_string_without_counts(store) ==
    [complete |-> TRUE, version |-> "version",
     networks |-> { [key |-> s, ssid |-> s, password |-> store[s].password,
                     last_used |-> to_json(store[s].last_used)] : s \in DOMAIN store }]

\* serde_json::to_string_pretty(self): the networks object, one member per SSID
to_string_pretty(store) ==
    [complete |-> TRUE, version |-> "version",
     networks |-> { [key |-> s, ssid |-> s, password |-> store[s].password,
                     last_used |-> to_json(store[s].last_used),
                     success_count |-> store[s].success_count] : s \in DOMAIN store }]

\* serde_json::from_str: Err on a text that is not a whole document; a member
\* without last_used / success_count gets the serde default
from_str(doc) ==
    IF ~doc.complete
    THEN [ok |-> FALSE, value |-> EmptyStore]
    ELSE [ok |-> TRUE,
          value |-> [s \in {e.key : e \in doc.networks} |->
                       LET e == CHOOSE m \in doc.networks : m.key = s
                       IN [password |-> e.password,
                           last_used |-> IF "last_used" \in DOMAIN e
                                         THEN from_json(e.last_used) ELSE None,
                           success_count |-> IF "success_count" \in DOMAIN e
                                             THEN e.success_count ELSE 0]]]

\* load_from, when the file can be read
load_from(fs, path) ==
    IF ~fs[path].exists
    THEN [ok |-> TRUE, value |-> EmptyStore]
    ELSE from_str(fs[path].content)

\* a credentials file written by an earlier release: no last_used member
OlderFile ==
    [complete |-> TRUE, version |-> "version",
     networks |-> { [key |-> "HomeWiFi", ssid |-> "HomeWiFi",
                     password |-> "hunter22", success_count |-> 3] }]

\* the directory before the run: no store file yet, or one that was saved
StoreDirs ==
    LET tmp == temp_path(CREDENTIALS_PATH)
    IN { [p \in {CREDENTIALS_PATH, tmp} |-> Absent] }
       \cup { [p \in {CREDENTIALS_PATH, tmp} |->
                 IF p = CREDENTIALS_PATH THEN File(d, "0600")
                 ELSE Absent] : d \in {OlderFile} \cup {to_string_pretty(c) :
                                                          c \in CredFiles \ {EmptyStore}} }

\* the caller's locals: its store value and what its last call was and gave
CredLocal(store, saved, call, result) ==
    [store |-> store, saved |-> saved, call |-> call, result |-> result]

NoCall == [op |-> None]

SavePcs == {"save_write", "save_write_done", "save_chmod", "save_rename"}

daemonVars == <<exit, wifi_state, state_tx, queue, waiting, rx_open, sup, host, tasks,
                workload>>

\* the daemon is not running
DaemonNotStarted ==
    /\ exit = "running"
    /\ wifi_state = DefaultWifiState
    /\ state_tx = DefaultWifiState
    /\ queue = <<>>
    /\ waiting = <<>>
    /\ rx_open = TRUE
    /\ sup = InitSup
    /\ host = InitHost("iwd")
    /\ tasks = [ipc |-> "none", web |-> "none", socket |-> FALSE]
    /\ workload = <<>>

\* CredentialsStore::new(), the directory as found
CredInit ==
    /\ pc = "cred_idle"
    /\ DaemonNotStarted
    /\ disk \in StoreDirs
    /\ local = CredLocal(EmptyStore, Nothing, NoCall, None)
    /\ hist = [saves |-> 0]

\* load_from, lines 59-78
CredLoadFrom ==
    /\ pc = "cred_idle"
    /\ \/ /\ disk[CREDENTIALS_PATH].exists                \* read_to_string fails
          /\ local' = [local EXCEPT !.call = [op |-> "load"], !.result = "err"]
       \/ LET r == load_from(disk, CREDENTIALS_PATH)
          IN local' = [local EXCEPT !.call = [op |-> "load"],
                                    !.store = IF r.ok THEN r.value ELSE @,
                                    !.result = IF r.ok THEN "loaded" ELSE "err"]
    /\ UNCHANGED <<pc, disk, hist>>
    /\ UNCHANGED daemonVars

\* save_credential, lines 119-140
CredSaveCredential ==
    /\ pc = "cred_idle"
    /\ hist.saves < MaxSaves
    /\ \E ssid \in SSIDs, password \in Passwords :
          local' = [local EXCEPT
                      !.store = save_credential(@, ssid, password),
                      !.call = [op |-> "save_credential", ssid |-> ssid,
                                password |-> password],
                      !.result = None]
    /\ hist' = [hist EXCEPT !.saves = @ + 1]
    /\ UNCHANGED <<pc, disk>>
    /\ UNCHANGED daemonVars

\* save_to returns Err: whatever it wrote so far stays
SaveToFails ==
    /\ pc' = "cred_idle"
    /\ local' = [local EXCEPT !.result = "err"]

\* save_to, lines 86-97: create_dir_all, to_string_pretty
SaveToBegin ==
    /\ pc = "cred_idle"
    /\ \/ /\ pc' = "save_write"
          /\ local' = [local EXCEPT
                         !.call = [op |-> "save", content |-> to_string_pretty(local.store),
                                   prev |-> disk[CREDENTIALS_PATH]],
                         !.result = None]
       \/ /\ pc' = "cred_idle"
          /\ local' = [local EXCEPT !.call = [op |-> "save"], !.result = "err"]
    /\ UNCHANGED <<disk, hist>>
    /\ UNCHANGED daemonVars

\* line 101, fs::write: the file is created or truncated
SaveToWrite ==
    /\ pc = "save_write"
    /\ LET tmp == temp_path(CREDENTIALS_PATH)
       IN \/ /\ disk' = [disk EXCEPT ![tmp] =
                            File(Partial(local.call.content),
                                 IF @.exists THEN @.mode ELSE "default")]
             /\ pc' = "save_write_done"
             /\ UNCHANGED local
          \/ /\ SaveToFails
             /\ UNCHANGED disk
    /\ UNCHANGED hist
    /\ UNCHANGED daemonVars

\* line 101, fs::write: the text is written out
SaveToWriteDone ==
    /\ pc = "save_write_done"
    /\ LET tmp == temp_path(CREDENTIALS_PATH)
       IN \/ /\ disk' = [disk EXCEPT ![tmp].content = local.call.content]
             /\ pc' = "save_chmod"
             /\ UNCHANGED local
          \/ /\ SaveToFails
             /\ UNCHANGED disk
    /\ UNCHANGED hist
    /\ UNCHANGED daemonVars

\* lines 104-109: set_permissions(&temp_path, 0o600)
SaveToChmod ==
    /\ pc = "save_chmod"
    /\ LET tmp == temp_path(CREDENTIALS_PATH)
       IN \/ /\ disk' = [disk EXCEPT ![tmp].mode = "0600"]
             /\ pc' = "save_rename"
             /\ UNCHANGED local
          \/ /\ SaveToFails
             /\ UNCHANGED disk
    /\ UNCHANGED hist
    /\ UNCHANGED daemonVars

\* lines 112-115: fs::rename(&temp_path, path), Ok(())
SaveToRename ==
    /\ pc = "save_rename"
    /\ LET tmp == temp_path(CREDENTIALS_PATH)
       IN \/ /\ disk' = [p \in DOMAIN disk |->
                           IF p = CREDENTIALS_PATH THEN disk[tmp] ELSE Absent]
             /\ pc' = "cred_idle"
             /\ local' = [local EXCEPT !.saved = Some(local.store), !.result = "saved"]
          \/ /\ SaveToFails
             /\ UNCHANGED disk
    /\ UNCHANGED hist
    /\ UNCHANGED daemonVars

CredNext ==
    \/ CredLoadFrom
    \/ CredSaveCredential
    \/ SaveToBegin
    \/ SaveToWrite
    \/ SaveToWriteDone
    \/ SaveToChmod
    \/ SaveToRename

SpecCredentials == CredInit /\ [][CredNext]_vars

\* C22: every save_credential call for an SSID sets the stored password to
\* the one of that call and raises success_count by exactly one (1 on the
\* first insert); no success_count ever decreases by a call, and the entries
\* of the other SSIDs are not changed.
C22_SaveCredentialStep ==
    hist'.saves = hist.saves + 1 =>
        LET c == local'.call
            before == local.store
            after == local'.store
        IN /\ c.op = "save_credential"
           /\ DOMAIN after = DOMAIN before \cup {c.ssid}
           /\ after[c.ssid].password = c.password
           /\ after[c.ssid].success_count =
                 IF c.ssid \in DOMAIN before THEN before[c.ssid].success_count + 1 ELSE 1
           /\ \A s \in DOMAIN before :
                 /\ after[s].success_count >= before[s].success_count
                 /\ s # c.ssid => after[s] = before[s]

C22_SuccessCountGrowsByOne == [][C22_SaveCredentialStep]_vars

\* a loaded entry was saved again with another password, after a first insert
C22_Witness ==
    /\ local.call.op = "save_credential"
    /\ local.call.ssid = "HomeWiFi"
    /\ DOMAIN local.store = SSIDs
    /\ local.store["HomeWiFi"].success_count = 4
    /\ local.store["HomeWiFi"].password = "letmein"
    /\ local.store["Guest"].success_count = 1

\* C23: a load from the path a store was saved to yields the same mapping
\* (SSIDs, passwords, last_used, success_count); a load from a path with no
\* file yields the empty store.
C23_SaveThenLoad ==
    (local.call.op = "load" /\ local.result = "loaded") =>
        IF ~disk[CREDENTIALS_PATH].exists
        THEN local.store = EmptyStore
        ELSE local.saved # Nothing => local.store = local.saved[1]

\* a store of two entries, one of them without last_used, was saved and loaded
C23_Witness ==
    /\ local.call.op = "load"
    /\ local.result = "loaded"
    /\ local.saved = Some(local.store)
    /\ DOMAIN local.store = SSIDs
    /\ local.store["HomeWiFi"].last_used = None
    /\ local.store["HomeWiFi"].success_count = 3
    /\ local.store["Guest"].last_used = "now"

\* C24: at every step of save_to, also when it stops or fails after any
\* step, the file at the store path is absent, the whole previous record or
\* the whole new record; the temporary file is in the directory of the
\* target and has mode 0600 before it is renamed onto it.
C24_TargetWhole ==
    LET target == disk[CREDENTIALS_PATH]
    IN /\ temp_path(CREDENTIALS_PATH).dir = CREDENTIALS_PATH.dir
       /\ target.exists => target.content.complete
       /\ pc \in SavePcs =>
             \/ target = local.call.prev
             \/ target.exists /\ target.content = local.call.content

C24_RenameStep ==
    disk'[CREDENTIALS_PATH] # disk[CREDENTIALS_PATH] =>
        LET temp == disk[temp_path(CREDENTIALS_PATH)]
        IN /\ pc = "save_rename"
           /\ temp.exists
           /\ temp.mode = "0600"
           /\ temp.content = to_string_pretty(local.store)
           /\ disk'[CREDENTIALS_PATH] = temp

C24_AtomicReplace == []C24_TargetWhole /\ [][C24_RenameStep]_vars

\* the temporary file is partly written while the previous record is in place
C24_Witness ==
    /\ pc = "save_write_done"
    /\ disk[CREDENTIALS_PATH].exists
    /\ disk[CREDENTIALS_PATH] = local.call.prev
    /\ ~disk[temp_path(CREDENTIALS_PATH)].content.complete
    /\ local.call.content # disk[CREDENTIALS_PATH].content

(***************************************************************************)
(* best_known_network on its own: a store and a list of available          *)
(* networks are given, the function is applied to them.                    *)
(***************************************************************************)
\* the longest list of available networks, the greatest success count
MaxAvailable == 2
MaxSuccessCount == 2

Signals == {40, 70}

\* the lists of available networks: known and unknown SSIDs, repeated or not
AvailableLists ==
    LET nets == {Net(s, g) : s \in SSIDs \cup {"Cafe"}, g \in Signals}
    IN UNION {[1..n -> nets] : n \in 0..MaxAvailable}

\* the stores: any of the SSIDs saved, with any count of successes
KnownStores ==
    UNION {[known -> {Cred("hunter22", n) : n \in 1..MaxSuccessCount}] :
             known \in SUBSET SSIDs}

BestInit ==
    /\ pc = "best_call"
    /\ DaemonNotStarted
    /\ disk = EmptyStore
    /\ hist = InitHist
    /\ \E store \in KnownStores, available \in AvailableLists :
          local = [store |-> store, available |-> available, best |-> Nothing]

\* best_known_network, lines 170-198
BestKnownNetwork ==
    /\ pc = "best_call"
    /\ local' = [local EXCEPT !.best = best_known_network(local.store, local.available)]
    /\ pc' = "best_done"
    /\ UNCHANGED <<disk, hist>>
    /\ UNCHANGED daemonVars

BestNext == BestKnownNetwork

SpecBestKnown == BestInit /\ [][BestNext]_vars

\* C25: best_known_network returns None exactly when no available network
\* has an entry in the store; otherwise it returns an available network that
\* has an entry, whose signal_strength is maximal among those, and whose
\* success_count is the greatest among the equally strong ones.
C25_BestKnownNetwork ==
    pc = "best_done" =>
        LET available == local.available
            store == local.store
            known == {i \in 1..Len(available) : available[i].ssid \in DOMAIN store}
        IN /\ local.best = Nothing <=> known = {}
           /\ local.best # Nothing =>
                 LET best == local.best[1]
                 IN /\ \E i \in known : available[i] = best
                    /\ \A j \in known :
                          /\ available[j].signal_strength <= best.signal_strength
                          /\ available[j].signal_strength = best.signal_strength =>
                                store[available[j].ssid].success_count
                                   <= store[best.ssid].success_count

\* two known networks are equally strong; the one with more successes is
\* second in the list and is the one returned
C25_Witness ==
    /\ pc = "best_done"
    /\ Len(local.available) = 2
    /\ local.available[1].ssid \in DOMAIN local.store
    /\ local.available[2].ssid \in DOMAIN local.store
    /\ local.available[1].signal_strength = local.available[2].signal_strength
    /\ local.store[local.available[1].ssid].success_count
          < local.store[local.available[2].ssid].success_count
    /\ local.best = Some(local.available[2])

(***************************************************************************)
(* The Interface Resolver and the Subnet Resolver on their own: the        *)
(* configured value and what the host shows (the wireless interfaces of    *)
(* /sys/class/net, the driverless PCI devices, the output of               *)
(* `ip -4 -o addr show`) are given, the resolver is applied to them.       *)
(***************************************************************************)
\* a text holding a dotted quad, or some other word
Quad(a, b, c, d) == [kind |-> "quad", octets |-> <<a, b, c, d>>]
Word(w) == [kind |-> "word", octets |-> <<>>, word |-> w]

\* str::parse::<Ipv4Addr>: the text is four octets
parse_ipv4(text) ==
    IF text.kind = "quad" /\ \A i \in 1..4 : text.octets[i] \in 0..255
    THEN [ok |-> TRUE, octets |-> text.octets]
    ELSE [ok |-> FALSE, octets |-> <<>>]

\* let [a, b, c, _] = ip.octets()
prefix24(octets) == <<octets[1], octets[2], octets[3]>>

\* Ipv4Addr::to_string
ipv4_to_string(octets) == Quad(octets[1], octets[2], octets[3], octets[4])

AP_IP_CANDIDATES ==
    << Quad(192, 168, 42, 1), Quad(10, 42, 0, 1), Quad(172, 20, 42, 1),
       Quad(192, 168, 88, 1), Quad(10, 123, 0, 1) >>

DEFAULT_AP_IP == Quad(192, 168, 42, 1)

\* a token of a line of the command's output: the text before its first '/',
\* and whether it has a '/'
Token(text, slash) == [head |-> text, slash |-> slash]

\* the lines `ip -4 -o addr show` can print on this host: an address in the
\* /24 of each candidate, an address elsewhere, a point-to-point address with
\* its peer, and a line with a '/' token that is no address before the address
AddressLines ==
    { << Token(Word("inet"), FALSE), Token(Quad(c.octets[1], c.octets[2], c.octets[3], 5), TRUE),
         Token(Word("scope"), FALSE) >> :
         c \in {AP_IP_CANDIDATES[i] : i \in 1..Len(AP_IP_CANDIDATES)} }
    \cup { << Token(Word("inet"), FALSE), Token(Quad(192, 168, 1, 10), TRUE) >>,
           << Token(Word("inet"), FALSE), Token(Quad(10, 42, 0, 7), FALSE),
              Token(Word("peer"), FALSE), Token(Quad(10, 9, 0, 2), TRUE) >>,
           << Token(Word("n/a"), TRUE), Token(Quad(172, 20, 42, 9), TRUE) >> }

\* what running the command gives: it cannot be run, it exits non-zero, or
\* it prints lines
IpOutputs ==
    {[status |-> st, lines |-> ls] :
        st \in {"spawn failed", "non-zero", "success"}, ls \in SUBSET AddressLines}

\* the tokens of a line that hold a '/' and whose head parses as an address
AddressTokens(line) ==
    {i \in 1..Len(line) : line[i].slash /\ parse_ipv4(line[i].head).ok}

\* occupied_ipv4_prefixes: per line, the /24 of the first token that has a
\* '/' and parses; nothing when the command fails
occupied_ipv4_prefixes(output) ==
    IF output.status # "success"
    THEN {}
    ELSE { prefix24(parse_ipv4(line[CHOOSE i \in AddressTokens(line) :
                                       \A j \in AddressTokens(line) : i <= j].head).octets) :
             line \in {l \in output.lines : AddressTokens(l) # {}} }

\* the configured value as given: a text, with or without blanks around it
Configured(text, padded) == [text |-> text, padded |-> padded]

\* str::trim
trim(configured) == configured.text

\* configured.eq_ignore_ascii_case("auto")
is_auto(text) == text.kind = "word" /\ text.word \in {"auto", "AUTO", "Auto"}

\* variant of the candidate loop that keeps the last free candidate
last_unoccupied(occupied) ==
    LET free == {i \in 1..Len(AP_IP_CANDIDATES) :
                    /\ parse_ipv4(AP_IP_CANDIDATES[i]).ok
                    /\ prefix24(parse_ipv4(AP_IP_CANDIDATES[i]).octets) \notin occupied}
    IN IF free = {} THEN DEFAULT_AP_IP
       ELSE AP_IP_CANDIDATES[CHOOSE i \in free : \A j \in free : i >= j]

\* lines 237-252: the first candidate whose /24 is not occupied, else the default
first_unoccupied(occupied) ==
    LET free == {i \in 1..Len(AP_IP_CANDIDATES) :
                    /\ parse_ipv4(AP_IP_CANDIDATES[i]).ok
                    /\ prefix24(parse_ipv4(AP_IP_CANDIDATES[i]).octets) \notin occupied}
    IN IF free = {} THEN DEFAULT_AP_IP
       ELSE AP_IP_CANDIDATES[CHOOSE i \in free : \A j \in free : i <= j]

\* resolve_ap_ip
resolve_ap_ip(configured, output) ==
    LET text == trim(configured)
    IN IF ~is_auto(text)
       THEN IF parse_ipv4(text).ok
            THEN [ok |-> TRUE, value |-> ipv4_to_string(parse_ipv4(text).octets)]
            ELSE [ok |-> FALSE, value |-> text]
       ELSE [ok |-> TRUE, value |-> first_unoccupied(occupied_ipv4_prefixes(output))]

\* the values of --ap-ip
ApIpInputs ==
    {Configured(t, pad) :
        t \in {Word("auto"), Word("AUTO"), Quad(192, 168, 50, 1), Quad(192, 168, 300, 1),
               Word("gateway")},
        pad \in BOOLEAN}

\* WirelessInterface
WirelessInterface(name, driver_bound, device_hint) ==
    [name |-> name, driver_bound |-> driver_bound, device_hint |-> device_hint]

\* the names under /sys/class/net that can have a wireless attribute, in
\* lexicographic order, and the leaf of each one's device link
InterfaceNames == << "p2p-wlan0-0", "wlan0", "wlan1" >>
DeviceHint(name) == IF name = "wlan1" THEN "1-1:1.0" ELSE "0000:03:00.0"

\* iface.name.starts_with("p2p-")
starts_with_p2p(name) == name \in {"p2p-wlan0-0", "p2p-wlan9-0"}

\* list_wireless_interfaces: every name is absent, present with a driver
\* bound, or present without one
InterfaceLists ==
    { { WirelessInterface(n, b[n], DeviceHint(n)) : n \in present } :
        present \in SUBSET {InterfaceNames[i] : i \in 1..Len(InterfaceNames)},
        b \in [{InterfaceNames[i] : i \in 1..Len(InterfaceNames)} -> BOOLEAN] }

\* detect_unbound_pci_wifi_devices
PciLists == { {}, {"0000:04:00.0 (vendor 0x8086, device 0x2723)"} }

\* the values of --interface
InterfaceInputs ==
    {Configured(Word(w), pad) :
        w \in {"auto", "AUTO", "", "wlan0", "wlan1", "wlan9", "p2p-wlan0-0", "p2p-wlan9-0"},
        pad \in BOOLEAN}

\* Ok(name)
IfaceOk(name) ==
    [ok |-> TRUE, name |-> name, message |-> None, names |-> {}, hints |-> {}, pci |-> {}]

\* variant of the errors whose messages leave the device hints out
IfaceErrWithoutHints(message, names, hints, pci) ==
    [ok |-> FALSE, name |-> None, message |-> message, names |-> names, hints |-> {},
     pci |-> pci]

\* the error: its message, and the names, hints and PCI devices the message lists
IfaceErr(message, names, hints, pci) ==
    [ok |-> FALSE, name |-> None, message |-> message, names |-> names, hints |-> hints,
     pci |-> pci]

NameRank(name) == CHOOSE i \in 1..Len(InterfaceNames) : InterfaceNames[i] = name

\* variant of the filter of choose_auto_interface that keeps the p2p- names
driver_bound_interfaces(interfaces) == {i \in interfaces : i.driver_bound}

\* lines 256-259: driver-bound and not p2p-
auto_viable_interfaces(interfaces) ==
    {i \in interfaces : i.driver_bound /\ ~starts_with_p2p(i.name)}

\* choose_auto_interface
choose_auto_interface(interfaces, unbound_wifi) ==
    LET viable == auto_viable_interfaces(interfaces)
        without_driver == {i \in interfaces : ~i.driver_bound /\ ~starts_with_p2p(i.name)}
    IN IF viable # {}
       THEN IfaceOk((CHOOSE i \in viable :
                        \A j \in viable : NameRank(i.name) <= NameRank(j.name)).name)
       ELSE IF without_driver # {}
       THEN IfaceErr("Wireless interface(s) detected but no kernel driver is bound",
                     {i.name : i \in without_driver},
                     {i.device_hint : i \in without_driver}, {})
       ELSE IF unbound_wifi # {}
       THEN IfaceErr("No usable wireless interface found. Detected wireless PCI device(s) without loaded driver",
                     {}, {}, unbound_wifi)
       ELSE IfaceErr("No usable wireless interfaces detected", {}, {}, {})

\* variant of the fallback's filter that does not ask for a bound driver
detected_interfaces(interfaces) == {i \in interfaces : ~starts_with_p2p(i.name)}

\* lines 168-172: of the detected interfaces, the driver-bound ones
viable_interfaces(interfaces) ==
    {i \in interfaces : ~starts_with_p2p(i.name) /\ i.driver_bound}

\* resolve_wireless_interface
resolve_wireless_interface(configured_arg, interfaces, unbound_wifi) ==
    LET configured == trim(configured_arg)
        named == {i \in interfaces : i.name = configured.word}
        detected_wireless == {i \in interfaces : ~starts_with_p2p(i.name)}
        viable == viable_interfaces(interfaces)
    IN IF is_auto(configured) \/ configured.word = ""
       THEN choose_auto_interface(interfaces, unbound_wifi)
       ELSE IF named # {}
       THEN LET iface == CHOOSE i \in named : TRUE
            IN IF iface.driver_bound
               THEN IfaceOk(iface.name)
               ELSE IfaceErr("Wireless card detected for interface but no kernel driver is bound",
                             {iface.name}, {iface.device_hint}, {})
       ELSE IF Cardinality(viable) = 1
       THEN IfaceOk((CHOOSE i \in viable : TRUE).name)
       ELSE IF viable # {}
       THEN IfaceErr("Configured interface was not found. Detected wireless interfaces",
                     {i.name : i \in viable}, {}, {})
       ELSE IF detected_wireless # {}
       THEN IfaceErr("Configured interface was not found. Wireless interface(s) detected but no kernel driver is bound",
                     {i.name : i \in detected_wireless},
                     {i.device_hint : i \in detected_wireless}, {})
       ELSE IF unbound_wifi # {}
       THEN IfaceErr("No wireless interface is currently available. Detected wireless PCI device(s) without loaded driver",
                     {}, {}, unbound_wifi)
       ELSE IfaceErr("Configured interface was not found and no wireless interfaces were detected",
                     {}, {}, {})

ResolverInit ==
    /\ DaemonNotStarted
    /\ disk = EmptyStore
    /\ hist = InitHist
    /\ \/ /\ pc = "resolve_interface"
          /\ \E configured \in InterfaceInputs, interfaces \in InterfaceLists,
                unbound_wifi \in PciLists :
                local = [configured |-> configured, interfaces |-> interfaces,
                         unbound_wifi |-> unbound_wifi, result |-> IfaceOk(None)]
       \/ /\ pc = "resolve_ap_ip"
          /\ \E configured \in ApIpInputs, output \in IpOutputs :
                local = [configured |-> configured, output |-> output,
                         result |-> [ok |-> FALSE, value |-> Word("")]]

\* the call of resolve_wireless_interface
ResolveWirelessInterface ==
    /\ pc = "resolve_interface"
    /\ local' = [local EXCEPT !.result = resolve_wireless_interface(
                                  local.configured, local.interfaces, local.unbound_wifi)]
    /\ pc' = "interface_resolved"
    /\ UNCHANGED <<disk, hist>>
    /\ UNCHANGED daemonVars

\* the call of resolve_ap_ip
ResolveApIp ==
    /\ pc = "resolve_ap_ip"
    /\ local' = [local EXCEPT !.result = resolve_ap_ip(local.configured, local.output)]
    /\ pc' = "ap_ip_resolved"
    /\ UNCHANGED <<disk, hist>>
    /\ UNCHANGED daemonVars

ResolverNext ==
    \/ ResolveWirelessInterface
    \/ ResolveApIp

SpecResolvers == ResolverInit /\ [][ResolverNext]_vars

\* C26: with "auto" the Subnet Resolver returns the first of the five
\* candidates whose /24 is not among the occupied prefixes; the /24 it
\* returns is occupied only when all five collide, and the result is then
\* 192.168.42.1.
C26_FirstFreeCandidate ==
    (pc = "ap_ip_resolved" /\ is_auto(trim(local.configured))) =>
        LET occupied == occupied_ipv4_prefixes(local.output)
            quad == local.result.value
            collides(i) == prefix24(AP_IP_CANDIDATES[i].octets) \in occupied
        IN /\ local.result.ok
           /\ \E i \in 1..Len(AP_IP_CANDIDATES) :
                 /\ quad = AP_IP_CANDIDATES[i]
                 /\ \A j \in 1..(i - 1) : collides(j)
                 /\ collides(i) =>
                       /\ \A j \in 1..Len(AP_IP_CANDIDATES) : collides(j)
                       /\ quad = Quad(192, 168, 42, 1)

\* the first two candidates collide, the third is returned
C26_Witness ==
    /\ pc = "ap_ip_resolved"
    /\ is_auto(trim(local.configured))
    /\ local.output.status = "success"
    /\ <<192, 168, 42>> \in occupied_ipv4_prefixes(local.output)
    /\ <<10, 42, 0>> \in occupied_ipv4_prefixes(local.output)
    /\ <<172, 20, 42>> \notin occupied_ipv4_prefixes(local.output)
    /\ local.result.value = Quad(172, 20, 42, 1)

\* the explicit name of a call, and whether an interface of that name exists
ExplicitName == trim(local.configured).word
IsExplicit == ~is_auto(trim(local.configured)) /\ ExplicitName # ""
NamedPresent == \E i \in local.interfaces : i.name = ExplicitName

\* C27 as the spec states it: with an explicit name the resolver succeeds
\* exactly when the named interface is present and driver-bound, or it is
\* absent and exactly one driver-bound wireless interface exists.
C27_Original ==
    (pc = "interface_resolved" /\ IsExplicit) =>
        LET bound == {i \in local.interfaces : i.driver_bound}
        IN local.result.ok <=>
              \/ \E i \in bound : i.name = ExplicitName
              \/ ~NamedPresent /\ Cardinality(bound) = 1

\* C27, amended: with an explicit name the resolver succeeds exactly when the
\* named interface is present and driver-bound (returning it), or it is
\* absent and exactly one driver-bound wireless interface whose name does not
\* begin with "p2p-" exists (returning that one); every returned interface is
\* driver-bound; with the name absent and several such interfaces it fails.
C27_ExplicitName ==
    (pc = "interface_resolved" /\ IsExplicit) =>
        LET bound == {i \in local.interfaces : i.driver_bound}
            viable == {i \in bound : ~starts_with_p2p(i.name)}
        IN /\ local.result.ok <=>
                 \/ \E i \in bound : i.name = ExplicitName
                 \/ ~NamedPresent /\ Cardinality(viable) = 1
           /\ local.result.ok =>
                 /\ \E i \in bound : i.name = local.result.name
                 /\ NamedPresent => local.result.name = ExplicitName
                 /\ ~NamedPresent => \E i \in viable : i.name = local.result.name
           /\ (~NamedPresent /\ Cardinality(viable) > 1) => ~local.result.ok

\* the configured name is absent; of the two driver-bound interfaces one is a
\* p2p- interface, and the other one is returned
C27_Witness ==
    /\ pc = "interface_resolved"
    /\ ExplicitName = "wlan9"
    /\ {i.name : i \in {j \in local.interfaces : j.driver_bound}} = {"p2p-wlan0-0", "wlan1"}
    /\ local.result.ok
    /\ local.result.name = "wlan1"

\* the adapters an error can speak of
DetectedAdapters == {i \in local.interfaces : ~starts_with_p2p(i.name)}
NoAdapterMessages ==
    {"No usable wireless interfaces detected",
     "Configured interface was not found and no wireless interfaces were detected"}

SeveralFoundMessage == "Configured interface was not found. Detected wireless interfaces"

\* an error says "no adapter" exactly when none was detected
C28_NoAdapterToldApart ==
    local.result.message \in NoAdapterMessages <=>
        (DetectedAdapters = {} /\ local.unbound_wifi = {} /\ (IsExplicit => ~NamedPresent))

C29_Original ==
    (pc = "interface_resolved" /\ local.result.ok) => ~starts_with_p2p(local.result.name)

\* C29, amended: the resolver never selects a name beginning with "p2p-" on
\* its own: with "auto" or an empty input, and in the fallback for an absent
\* name, the result does not begin with "p2p-"; a p2p- name is returned only
\* when it is the explicit name configured and that interface is present and
\* driver-bound.
C29_P2pNeverSelected ==
    (pc = "interface_resolved" /\ local.result.ok /\ starts_with_p2p(local.result.name)) =>
        /\ IsExplicit
        /\ ExplicitName = local.result.name
        /\ \E i \in local.interfaces : i.name = ExplicitName /\ i.driver_bound

\* "auto" with a driver-bound p2p- interface that sorts first: another one is chosen
C29_Witness ==
    /\ pc = "interface_resolved"
    /\ is_auto(trim(local.configured))
    /\ \E i \in local.interfaces : i.name = "p2p-wlan0-0" /\ i.driver_bound
    /\ local.result.ok
    /\ local.result.name = "wlan0"

(***************************************************************************)
(* The Network Scanner on its own: the access points NetworkManager lists  *)
(* for the device are given, scan_networks is applied to them.             *)
(***************************************************************************)
\* the most access points of one scan
MaxAps == 3

\* the Ssid property: no bytes, UTF-8 text, or bytes that are not UTF-8
RawSsids == {"", "HomeWiFi", "Guest", "<ff>", "<fe>"}

\* String::from_utf8_lossy: what is not UTF-8 becomes U+FFFD
from_utf8_lossy(raw) == IF raw \in {"<ff>", "<fe>"} THEN "<U+FFFD>" ELSE raw

\* Strength and Frequency as read (0 and 0 when the properties cannot be read)
Readings ==
    { [strength |-> 30, frequency |-> 2437], [strength |-> 60, frequency |-> 5180],
      [strength |-> 60, frequency |-> 2484], [strength |-> 0, frequency |-> 0] }

\* the access point objects of a scan
AccessPoints ==
    { [ssid_raw |-> r, strength |-> g.strength, frequency |-> g.frequency] :
        r \in RawSsids, g \in Readings }

ApLists == UNION {[1..n -> AccessPoints] : n \in 0..MaxAps}

\* frequency_to_channel
frequency_to_channel(freq) ==
    IF freq \in 2412..2472 THEN (freq - 2407) \div 5
    ELSE IF freq = 2484 THEN 14
    ELSE IF freq \in 5000..5900 THEN (freq - 5000) \div 5
    ELSE 0

\* read_access_point: None for an empty Ssid, else the NetworkInfo
read_access_point(ap) ==
    IF ap.ssid_raw = "" \/ from_utf8_lossy(ap.ssid_raw) = ""
    THEN Nothing
    ELSE Some([ssid |-> from_utf8_lossy(ap.ssid_raw), signal_strength |-> ap.strength,
               frequency |-> ap.frequency,
               channel |-> frequency_to_channel(ap.frequency)])

\* variant of the merge that keeps the entry seen first
first_seen(aps, ssid) ==
    CHOOSE i \in 1..Len(aps) :
       /\ read_access_point(aps[i]) # Nothing
       /\ read_access_point(aps[i])[1].ssid = ssid
       /\ \A j \in 1..(i - 1) :
             read_access_point(aps[j]) = Nothing \/ read_access_point(aps[j])[1].ssid # ssid

\* lines 441-449: the entry of an SSID is replaced only by a stronger one, so
\* the one kept is the first of the strongest
kept_entry(aps, ssid) ==
    LET same == {i \in 1..Len(aps) :
                    /\ read_access_point(aps[i]) # Nothing
                    /\ read_access_point(aps[i])[1].ssid = ssid}
    IN CHOOSE i \in same :
          \A j \in same : \/ aps[j].strength < aps[i].strength
                          \/ aps[j].strength = aps[i].strength /\ i <= j

\* lines 438-450: by_ssid
by_ssid(aps) ==
    [s \in {read_access_point(aps[i])[1].ssid :
              i \in {k \in 1..Len(aps) : read_access_point(aps[k]) # Nothing}} |->
        read_access_point(aps[kept_entry(aps, s)])[1]]

\* lines 452-453: the values of the map in whatever order it gives them, after
\* the stable sort by signal strength, descending
sorted_values(map) ==
    { q \in [1..Cardinality(DOMAIN map) -> {map[s] : s \in DOMAIN map}] :
        /\ \A s \in DOMAIN map : \E i \in DOMAIN q : q[i] = map[s]
        /\ \A i \in DOMAIN q : \A j \in DOMAIN q :
              i < j => q[i].signal_strength >= q[j].signal_strength }

ScanInit ==
    /\ pc = "scan_call"
    /\ DaemonNotStarted
    /\ disk = EmptyStore
    /\ hist = InitHist
    /\ \E aps \in ApLists :
          local = [access_points |-> aps, result |-> [ok |-> FALSE, networks |-> <<>>]]

\* scan_networks: a bus call fails, or the list is built
ScanNetworksCall ==
    /\ pc = "scan_call"
    /\ \/ /\ pc' = "scan_failed"
          /\ UNCHANGED local
       \/ /\ pc' = "scan_returned"
          /\ \E networks \in sorted_values(by_ssid(local.access_points)) :
                local' = [local EXCEPT !.result = [ok |-> TRUE, networks |-> networks]]
    /\ UNCHANGED <<disk, hist>>
    /\ UNCHANGED daemonVars

ScanNext == ScanNetworksCall

SpecScanner == ScanInit /\ [][ScanNext]_vars

\* C30: the list scan_networks returns is sorted non-increasing by
\* signal_strength, holds every non-empty SSID of the access points exactly
\* once, with the strongest signal seen for it, and each channel is the
\* function of the entry's frequency: 2412-2472 -> (f - 2407) / 5,
\* 2484 -> 14, 5000-5900 -> (f - 5000) / 5, else 0.
C30_ScanList ==
    pc = "scan_returned" =>
        LET aps == local.access_points
            nets == local.result.networks
            named == {i \in 1..Len(aps) : aps[i].ssid_raw # ""}
        IN /\ \A i \in 1..Len(nets) : \A j \in 1..Len(nets) :
                 /\ i < j => nets[i].signal_strength >= nets[j].signal_strength
                 /\ i # j => nets[i].ssid # nets[j].ssid
           /\ \A i \in named : \E k \in 1..Len(nets) :
                 /\ nets[k].ssid = from_utf8_lossy(aps[i].ssid_raw)
                 /\ nets[k].signal_strength >= aps[i].strength
           /\ \A k \in 1..Len(nets) :
                 /\ nets[k].ssid # ""
                 /\ \E i \in named :
                       /\ from_utf8_lossy(aps[i].ssid_raw) = nets[k].ssid
                       /\ aps[i].strength = nets[k].signal_strength
                       /\ aps[i].frequency = nets[k].frequency
                 /\ LET f == nets[k].frequency
                    IN nets[k].channel =
                          CASE f >= 2412 /\ f <= 2472 -> (f - 2407) \div 5
                            [] f = 2484 -> 14
                            [] f >= 5000 /\ f <= 5900 -> (f - 5000) \div 5
                            [] OTHER -> 0

\* an SSID was seen twice, the stronger one second, and another SSID is weaker
C30_Witness ==
    /\ pc = "scan_returned"
    /\ Len(local.access_points) = 3
    /\ local.access_points[1].ssid_raw = "HomeWiFi"
    /\ local.access_points[1].strength = 30
    /\ local.access_points[2].ssid_raw = "HomeWiFi"
    /\ local.access_points[2].strength = 60
    /\ local.access_points[3].ssid_raw = "Guest"
    /\ local.access_points[3].strength = 30
    /\ Len(local.result.networks) = 2
    /\ local.result.networks[1].ssid = "HomeWiFi"
    /\ local.result.networks[1].signal_strength = 60
    /\ local.result.networks[1].channel \in {14, 36}

(***************************************************************************)
(* One IPC connection on its own: handle_client reads the lines a client   *)
(* has written, answers them, and puts commands on the queue, while the    *)
(* control loop takes commands off the queue or ends.  pc is the position  *)
(* of handle_client, local its locals and the two directions of the        *)
(* stream; queue, waiting and rx_open are the command queue as above.      *)
(***************************************************************************)
\* the most lines a client writes on one connection
MaxLines == 2

\* what a client can write as one line: a request, a Connect without the
\* save member, text that is no request, bytes that are not UTF-8
IpcLines ==
    { [utf8 |-> TRUE, json |-> j, save |-> None] : j \in {"GetStatus", "Scan", "Shutdown", "garbage"} }
    \cup { [utf8 |-> TRUE, json |-> "Connect", save |-> sv] : sv \in {"true", "false", "absent"} }
    \cup { [utf8 |-> FALSE, json |-> "garbage", save |-> None] }

IpcInputs == UNION {[1..n -> IpcLines] : n \in 0..MaxLines}

\* default_save
default_save == TRUE

\* serde_json::from_str::<IpcRequest>
parse_request(line) ==
    IF line.json = "garbage"
    THEN [ok |-> FALSE, request |-> NoCmd]
    ELSE [ok |-> TRUE,
          request |-> IF line.json = "Connect"
                      THEN Cmd("Connect", "Guest", "letmein",
                               IF line.save = "absent" THEN default_save
                               ELSE line.save = "true", None)
                      ELSE Cmd(line.json, None, None, FALSE, None)]

\* IpcResponse, with what became of the command the request asked for
IpcResponse(kind, sent) == [kind |-> kind, sent |-> sent]

\* the queue as other clients have left it: empty, or one or no permit free
ScanCmd(i) == [Cmd("Scan", None, None, FALSE, None) EXCEPT !.seq = i]
IpcQueues ==
    { [i \in 1..n |-> ScanCmd(i)] :
        n \in {0, CommandQueueCapacity - 1, CommandQueueCapacity} }

IpcLocal(lines, next, request, response, responses, result) ==
    [lines |-> lines, next |-> next, request |-> request, response |-> response,
     responses |-> responses, result |-> result]

IpcInit ==
    /\ pc = "ipc_read"
    /\ exit = "running"
    /\ wifi_state = DefaultWifiState
    /\ state_tx = DefaultWifiState
    /\ queue \in IpcQueues
    /\ waiting = <<>>
    /\ rx_open \in BOOLEAN
    /\ sup = InitSup
    /\ host = InitHost("iwd")
    /\ tasks = [ipc |-> "running", web |-> "running", socket |-> TRUE]
    /\ workload = <<>>
    /\ disk = EmptyStore
    /\ hist = InitHist
    /\ \E lines \in IpcInputs :
          local = IpcLocal(lines, 1, NoCmd, IpcResponse(None, None), <<>>, None)

ipcFrame == <<exit, wifi_state, state_tx, sup, host, tasks, workload, disk, hist>>

\* lines 57-71: read_line, from_str
IpcReadLine ==
    /\ pc = "ipc_read"
    /\ IF local.next > Len(local.lines)
       THEN /\ pc' = "ipc_returned"                              \* n == 0: break, Ok(())
            /\ local' = [local EXCEPT !.result = "eof"]
       ELSE LET line == local.lines[local.next]
                parsed == parse_request(line)
            IN IF ~line.utf8
               THEN /\ pc' = "ipc_returned"                      \* read_line(..).await?
                    /\ local' = [local EXCEPT !.result = "invalid data"]
               ELSE IF ~parsed.ok
               THEN /\ pc' = "ipc_write"
                    /\ local' = [local EXCEPT !.response = IpcResponse("Error", None)]
               ELSE /\ pc' = "ipc_request"
                    /\ local' = [local EXCEPT !.request = parsed.request]
    /\ UNCHANGED <<queue, waiting, rx_open>>
    /\ UNCHANGED ipcFrame

\* lines 78-92: let _ = send(..).await; IpcResponse::Ok
ResponseAfterSend(sent) == IpcResponse("Ok", sent)

\* lines 73-93: the arms of the match, up to the send
IpcHandleRequest ==
    /\ pc = "ipc_request"
    /\ IF local.request.kind = "GetStatus"
       THEN /\ local' = [local EXCEPT !.response = IpcResponse("Status", None)]
            /\ pc' = "ipc_write"
            /\ UNCHANGED <<queue, waiting>>
       ELSE IF ~rx_open
       THEN /\ local' = [local EXCEPT !.response = ResponseAfterSend("closed")]
            /\ pc' = "ipc_write"
            /\ UNCHANGED <<queue, waiting>>
       ELSE IF HasRoom(queue)
       THEN /\ queue' = Append(queue, local.request)
            /\ local' = [local EXCEPT !.response = ResponseAfterSend("queued")]
            /\ pc' = "ipc_write"
            /\ UNCHANGED waiting
       ELSE /\ waiting' = <<local.request>>                      \* no permit: suspended
            /\ pc' = "ipc_send"
            /\ UNCHANGED <<queue, local>>
    /\ UNCHANGED rx_open
    /\ UNCHANGED ipcFrame

\* the suspended send returns: with a permit, or with Err when the queue closed
IpcSendReturns ==
    /\ pc = "ipc_send"
    /\ \/ /\ rx_open
          /\ HasRoom(queue)
          /\ queue' = Append(queue, Head(waiting))
          /\ local' = [local EXCEPT !.response = ResponseAfterSend("queued")]
       \/ /\ ~rx_open
          /\ queue' = queue
          /\ local' = [local EXCEPT !.response = ResponseAfterSend("closed")]
    /\ waiting' = <<>>
    /\ pc' = "ipc_write"
    /\ UNCHANGED rx_open
    /\ UNCHANGED ipcFrame

\* lines 67-68 and 95-96: write_all
IpcWriteResponse ==
    /\ pc = "ipc_write"
    /\ \/ /\ local' = [local EXCEPT !.responses = Append(@, local.response),
                                    !.next = @ + 1, !.request = NoCmd,
                                    !.response = IpcResponse(None, None)]
          /\ pc' = "ipc_read"
       \/ /\ local' = [local EXCEPT !.result = "write failed"]   \* the client has gone
          /\ pc' = "ipc_returned"
    /\ UNCHANGED <<queue, waiting, rx_open>>
    /\ UNCHANGED ipcFrame

\* the control loop takes the oldest command
IpcLoopRecv ==
    /\ rx_open
    /\ queue # <<>>
    /\ queue' = recv(queue).rest
    /\ UNCHANGED <<pc, local, waiting, rx_open>>
    /\ UNCHANGED ipcFrame

\* the control loop ends and drops command_rx
IpcLoopEnds ==
    /\ rx_open
    /\ rx_open' = FALSE
    /\ UNCHANGED <<pc, local, queue, waiting>>
    /\ UNCHANGED ipcFrame

IpcNext ==
    \/ IpcReadLine
    \/ IpcHandleRequest
    \/ IpcSendReturns
    \/ IpcWriteResponse
    \/ IpcLoopRecv
    \/ IpcLoopEnds

SpecIpc == IpcInit /\ [][IpcNext]_vars

\* the response a line is due
ExpectedResponse(line) ==
    IF line.json = "garbage" \/ ~line.utf8 THEN "Error"
    ELSE IF line.json = "GetStatus" THEN "Status"
    ELSE "Ok"

\* C31: on one IPC connection every request line gets exactly one response
\* line, in the order of the requests, also when several are pipelined; a
\* malformed line is answered with Error and the following lines are served.
C31_OneResponsePerLine ==
    /\ Len(local.responses) = local.next - 1
    /\ \A i \in 1..Len(local.responses) :
          local.responses[i].kind = ExpectedResponse(local.lines[i])
    /\ (pc = "ipc_returned" /\ local.result # "write failed") =>
          Len(local.responses) = Len(local.lines)

\* C32: when a Scan, Connect or Shutdown request cannot be placed on the
\* command queue because the queue is closed, the response is Error, not Ok.
C32_ClosedQueueAnsweredWithError ==
    \A i \in 1..Len(local.responses) :
       local.responses[i].sent = "closed" => local.responses[i].kind = "Error"

(***************************************************************************)
(* switch_wifi_backend on its own: the script it runs under systemd-run,   *)
(* command by command.  host is the host as above (backend: what the       *)
(* drop-in file says, active: the backend units running); local holds the  *)
(* requested backend, the units the image has, and what the script did.    *)
(***************************************************************************)
\* backend.as_nm_value() and the unit of a backend
BackendUnit(backend) == backend

SwitchLocal(requested, available, log, failed, nm_restarts, result, stderr) ==
    [requested |-> requested, available |-> available, log |-> log, failed |-> failed,
     nm_restarts |-> nm_restarts, result |-> result, stderr |-> stderr]

SwitchInit ==
    /\ pc = "switch_spawn"
    /\ exit = "running"
    /\ wifi_state = DefaultWifiState
    /\ state_tx = DefaultWifiState
    /\ queue = <<>>
    /\ waiting = <<>>
    /\ rx_open = TRUE
    /\ sup = InitSup
    /\ tasks = [ipc |-> "none", web |-> "none", socket |-> FALSE]
    /\ workload = <<>>
    /\ disk = EmptyStore
    /\ hist = InitHist
    /\ \E configured \in Backends, active \in SUBSET Backends :
          host = [InitHost(configured) EXCEPT !.active = active]
    /\ \E requested \in Backends, available \in SUBSET Backends :
          local = SwitchLocal(requested, available, <<>>, {}, 0, None, None)

switchFrame ==
    <<exit, wifi_state, state_tx, queue, waiting, rx_open, sup, tasks, workload, disk,
      hist>>

\* set -e: a command that fails ends the script; systemd-run exits non-zero
\* and switch_wifi_backend bails with the script's stderr
ScriptFails(step, stderr) ==
    /\ pc' = "switch_returned"
    /\ local' = [local EXCEPT !.failed = @ \cup {step}, !.result = "err",
                              !.stderr = stderr]

\* the command was run and succeeded
ScriptDid(step) == [local EXCEPT !.log = Append(@, step)]

\* lines 108-124: systemd-run is executed
SwitchSpawn ==
    /\ pc = "switch_spawn"
    /\ \/ /\ pc' = "switch_conf"
          /\ UNCHANGED local
       \/ /\ pc' = "switch_returned"            \* "Failed to execute backend switch"
          /\ local' = [local EXCEPT !.failed = {"systemd-run"}, !.result = "err"]
    /\ UNCHANGED host
    /\ UNCHANGED switchFrame

\* lines 75-79: mkdir -p, cat > "$CONF_FILE"
SwitchWriteConf ==
    /\ pc = "switch_conf"
    /\ \/ /\ host' = [host EXCEPT !.backend = local.requested]
          /\ local' = ScriptDid("conf")
          /\ pc' = "switch_unit"
       \/ /\ ScriptFails("conf", "cannot create")
          /\ UNCHANGED host
    /\ UNCHANGED switchFrame

\* lines 81-85, 89-93: systemctl cat <unit>, or exit 2
SwitchCheckUnit ==
    /\ pc = "switch_unit"
    /\ IF BackendUnit(local.requested) \in local.available
       THEN /\ pc' = "switch_stop"
            /\ UNCHANGED local
       ELSE ScriptFails("unit", "is not available on this image")
    /\ UNCHANGED host
    /\ UNCHANGED switchFrame

\* lines 86, 94: systemctl stop <other> || true
SwitchStopOther ==
    /\ pc = "switch_stop"
    /\ \/ /\ host' = [host EXCEPT !.active = @ \ {BackendUnit(Other(local.requested))}]
          /\ local' = ScriptDid("stop")
       \/ /\ host' = host                                  \* the stop fails: || true
          /\ local' = [local EXCEPT !.failed = @ \cup {"stop"}]
    /\ pc' = "switch_start"
    /\ UNCHANGED switchFrame

\* variant of the script without set -e at the start of the unit
after_start_unchecked(started) == "switch_restart"

\* where the script goes after systemctl start <unit>
after_start(started) == IF started THEN "switch_restart" ELSE "switch_returned"

\* lines 87, 95: systemctl start <unit>
SwitchStart ==
    /\ pc = "switch_start"
    /\ \/ /\ host' = [host EXCEPT !.active = @ \cup {BackendUnit(local.requested)}]
          /\ local' = ScriptDid("start")
          /\ pc' = after_start(TRUE)
       \/ /\ host' = host
          /\ local' = [local EXCEPT
                         !.failed = @ \cup {"start"},
                         !.result = IF after_start(FALSE) = "switch_returned"
                                    THEN "err" ELSE @,
                         !.stderr = "Failed to start"]
          /\ pc' = after_start(FALSE)
    /\ UNCHANGED switchFrame

\* line 98: systemctl restart NetworkManager.service; lines 126-129
SwitchRestart ==
    /\ pc = "switch_restart"
    /\ \/ /\ local' = [ScriptDid("restart") EXCEPT !.nm_restarts = @ + 1,
                                                   !.result = "ok"]
          /\ pc' = "switch_returned"
       \/ ScriptFails("restart", "Failed to restart")
    /\ UNCHANGED host
    /\ UNCHANGED switchFrame

SwitchNext ==
    \/ SwitchSpawn
    \/ SwitchWriteConf
    \/ SwitchCheckUnit
    \/ SwitchStopOther
    \/ SwitchStart
    \/ SwitchRestart

SpecSwitch == SwitchInit /\ [][SwitchNext]_vars

\* the script's commands come in this order
C33_Order ==
    /\ \A i \in 1..Len(local.log) : \A j \in 1..Len(local.log) :
          i < j => <<local.log[i], local.log[j]>> \in
                      {<<"conf", "stop">>, <<"conf", "start">>, <<"conf", "restart">>,
                       <<"stop", "start">>, <<"stop", "restart">>, <<"start", "restart">>}
    /\ local.nm_restarts > 0 =>
          /\ local.log[Len(local.log)] = "restart"
          /\ host.backend = local.requested
          /\ BackendUnit(local.requested) \in host.active
    /\ (local.log # <<>>) => local.log[1] = "conf" /\ host.backend = local.requested

StatusMoves ==
    {<<"Initializing", "Scanning">>, <<"Scanning", "AwaitingCredentials">>,
     <<"AwaitingCredentials", "Connecting">>, <<"Failed", "Connecting">>,
     <<"Connecting", "Connected">>, <<"Connecting", "Failed">>}

\* the status changes around a SwitchBackend command
SwitchMoves ==
    {<<"AwaitingCredentials", "SwitchingBackend">>, <<"Failed", "SwitchingBackend">>,
     <<"SwitchingBackend", "Connecting">>}

StatusChanges == wifi_state'.status # wifi_state.status

C34_StatusStep ==
    StatusChanges =>
        /\ <<wifi_state.status, wifi_state'.status>> \in StatusMoves \cup SwitchMoves
        /\ wifi_state'.status = "SwitchingBackend" =>
              recv(queue).cmd.kind = "SwitchBackend"
        /\ wifi_state'.status = "Connected" => pc = "cmd_connected"
        /\ wifi_state'.status = "Failed" =>
              pc = "cmd_failed" /\ local.conn_error # None

C35_StatePublished == state_tx = wifi_state

\* the Err arm of a Connect has written Failed and the channel carries it
C35_Witness ==
    /\ pc = "loop"
    /\ wifi_state.status = "Failed"
    /\ state_tx.status = "Failed"
    /\ state_tx.last_error # None

\* the loop has handled a successful Connect (it sleeps and breaks), or it has
\* ended: by that break, by Shutdown or by SIGINT
LoopStopped == pc = "cmd_settle" \/ ~rx_open

C36_Step ==
    /\ LoopStopped =>
          /\ LoopStopped'
          /\ hist'.handled = hist.handled
          /\ wifi_state' = wifi_state /\ state_tx' = state_tx
          /\ host' = host /\ disk' = disk
          /\ local'.attempt = local.attempt /\ sup'.spawned = sup.spawned
          /\ hist'.start_ap_called = hist.start_ap_called
          /\ sup' # sup => pc = "teardown" /\ sup' = stop_ap(sup)
          /\ ~rx_open => queue' = queue
    /\ wifi_state.status = "Connected" => wifi_state'.status = "Connected"

\* C36: once the loop has handled Shutdown, SIGINT or a successful Connect, no
\* command still in the queue or enqueued later is executed: no command is
\* taken off the queue, nothing is connected, spawned or started, the
\* WifiState and the published state do not change, and the only step on the
\* helpers is the stop_ap of the cleanup; once the status is Connected it
\* never changes again.
C36_ConnectedIsTerminal == [][C36_Step]_vars

\* the daemon has returned after a successful Connect with a command left in
\* the queue
C36_Witness ==
    /\ pc = "done" /\ exit = "ok"
    /\ wifi_state.status = "Connected"
    /\ queue # <<>>
    /\ ~rx_open

\* C37: in every reachable WifiState, status Failed implies last_error is
\* set; status Connecting implies connecting_to is set and last_error is
\* empty; connecting_to is set only while the status is Connecting.
C37_ErrorAndTargetFields ==
    /\ wifi_state.status = "Failed" => wifi_state.last_error # None
    /\ wifi_state.status = "Connecting" =>
          wifi_state.connecting_to \in SSIDs /\ wifi_state.last_error = None
    /\ wifi_state.connecting_to # None => wifi_state.status = "Connecting"

\* a Connect is being handled after an earlier one failed: the target is
\* recorded and the earlier error is cleared
C37_Witness ==
    /\ wifi_state.status = "Connecting"
    /\ wifi_state.connecting_to \in SSIDs
    /\ wifi_state.last_error = None
    /\ hist.handled >= 2
    /\ pc = "conn_attempt"

\* C38: whenever the daemon exits after the AP was started and the loop has
\* ended (by Shutdown, SIGINT or after a Connect), the device that
\* prepare_device_for_ap released is managed and autoconnectable again and
\* iwd.service, the backend service it stopped, is running again if iwd is the
\* configured backend.
C38_HostRestoredOnExit ==
    (pc = "done" /\ exit = "ok" /\ ~rx_open /\ hist.start_ap_called) =>
        /\ host.managed /\ host.autoconnect
        /\ host.backend = "iwd" => "iwd" \in host.active

\* the child start_ap_inner has spawned and holds in its local variable until
\* the settle delay has passed and the handle is stored
InFlight(settle) ==
    IF pc \in {settle, "ap_failed"} THEN {local.child} ELSE {}

\* start_ap has just returned Ok: at startup, or at the restart after a failed
\* Connect
StartApSucceeded ==
    pc = "set_ap_running" \/ (pc = "cmd_failed" /\ ~hist.ap_failed)

\* C39: across every sequence of start_ap, stop_ap and Connect commands, at
\* most one hostapd and at most one dnsmasq spawned by the daemon are alive at
\* any time, and every alive helper is the one held in its stored handle (or
\* the child a running start_ap has spawned and is about to store); start_ap
\* never stores into a handle that still holds a live child, and after a
\* successful start_ap both handles hold the children of that start.
C39_OneHelperEach ==
    /\ Cardinality(sup.hostapd) <= 1
    /\ Cardinality(sup.dnsmasq) <= 1
    /\ sup.hostapd \subseteq {sup.hostapd_handle} \cup InFlight("ap_hostapd_settle")
    /\ sup.dnsmasq \subseteq {sup.dnsmasq_handle} \cup InFlight("ap_dnsmasq_settle")
    /\ pc = "ap_hostapd_settle" => sup.hostapd_handle \notin sup.hostapd
    /\ pc = "ap_dnsmasq_settle" => sup.dnsmasq_handle \notin sup.dnsmasq
    /\ StartApSucceeded =>
          /\ sup.hostapd = {sup.hostapd_handle} /\ sup.hostapd_handle = sup.spawned - 1
          /\ sup.dnsmasq = {sup.dnsmasq_handle} /\ sup.dnsmasq_handle = sup.spawned

\* the AP has been started again after a failed Connect: the helpers of the
\* first start are gone, those of the second are alive and stored
C39_Witness ==
    /\ pc = "cmd_failed" /\ ~hist.ap_failed
    /\ sup.spawned = 4
    /\ sup.hostapd = {3} /\ sup.hostapd_handle = 3
    /\ sup.dnsmasq = {4} /\ sup.dnsmasq_handle = 4

(***************************************************************************)
(* Progress of the Connect handler.                                        *)
(***************************************************************************)
\* the steps of the Connect arm after its first write: stop_ap, the connector,
\* the restart of the AP, the last write.  Each is a call that returns.
ConnectHandlerStep ==
    \/ CmdStopAp
    \/ ConnPreamble
    \/ ConnAttempt
    \/ ConnWaitRead
    \/ ConnWaitDecide
    \/ ApPrepare
    \/ ApWriteConfigs
    \/ ApSpawnHostapd
    \/ ApHostapdSettle
    \/ ApAssignAddress
    \/ ApSpawnDnsmasq
    \/ ApDnsmasqSettle
    \/ ApFailed
    \/ CmdConnected
    \/ CmdFailed

\* wait_for_device_activation reads the clock in every round of its poll:
\* time passes, so a poll that goes on finds start.elapsed() > timeout
DeadlinePasses == ConnWaitRead /\ local'.deadline

\* the daemon with its calls returning and the clock advancing
FairSpec == Init /\ [][Next]_vars /\ WF_vars(ConnectHandlerStep) /\ SF_vars(DeadlinePasses)

\* C40: every Connect command the loop starts to handle eventually finishes:
\* with each bus call and child-process call returning, status Connecting
\* leads to status Connected or Failed.
C40_ConnectFinishes ==
    (wifi_state.status = "Connecting") ~> (wifi_state.status \in {"Connected", "Failed"})

\* the activation poll of a Connect has reached its deadline with the device
\* still on its way
C40_Witness ==
    /\ wifi_state.status = "Connecting"
    /\ local.caller = "cmd"
    /\ pc = "conn_decide"
    /\ local.deadline
    /\ local.dev_state = 50

=============================================================================
